---- MODULE Spec2Model ----
(***************************************************************************)
(* State-machine model of wfb_ng/server.py: the RX/TX telemetry parsers,   *)
(* the statistics aggregator with its TX antenna selector, and the         *)
(* service builders that wire worker processes, port promises and sockets. *)
(*                                                                         *)
(* A telemetry line is modelled after line.split('\t'): a sequence of      *)
(* columns, each column being the sequence of its ':'-separated tokens.    *)
(* Tokens are strings; int() is the table IntOf, int(.., 16) is HexOf.     *)
(***************************************************************************)
EXTENDS Integers, Sequences, FiniteSets, TLC

\* ------------------------------------------------------------------ bounds
MaxCbs == 2
MaxSessions == 1
MaxTotal == 2
MaxServices == 2

\* ------------------------------------------------------- program constants
LINK_LOST == 1
LINK_JAMMED == 2
AbsentRssi == -1000
NoSignalRssi == -128
CounterMax == 65535
AntShift == 256

VARIABLES
    settings,          \* settings.common.* read by the aggregator
    tx_sel,            \* StatsAndSelectorFactory.tx_sel
    ant_sel_cb_list,   \* registered antenna-selection callbacks (ids)
    peer,              \* per callback, p_in.peer of its service: <<i>> is p_tx_l[i], <<>> unset
    rssi_cb_l,         \* registered rssi callbacks (ids)
    ui_sessions,       \* broadcast list: the logger and the CLI sessions
    rx_ant,            \* RXAntennaProtocol.ant
    rx_count_all,      \* RXAntennaProtocol.count_all (<<>> is None)
    rx_session,        \* RXAntennaProtocol.session
    logger,            \* whether the aggregator was given a binary logger
    rf_temperature,    \* StatsAndSelectorFactory.rf_temperature: ant_id -> temperature
    tx_ports,          \* TXAntennaProtocol.ports
    tx_control_port,   \* TXAntennaProtocol.control_port (0 is None)
    tx_ant,            \* TXAntennaProtocol.ant
    tx_count_all,      \* TXAntennaProtocol.count_all (<<>> is None)
    ports_df,          \* the Deferred given to the TX worker as ports_df
    control_port_df,   \* the Deferred given to the TX worker as control_port_df
    svc,               \* the service's type and the cfg fields its builder reads
    b_pc,              \* where the service builder stands
    b_exc,             \* the exception the builder failed with ("none" if none)
    sockets,           \* the builder's local list 'sockets'
    opened,            \* ports, serial port and tun device opened and not closed
    tx_proc,           \* the wfb_tx child: "none", "running", "exit0", "exit1"
    rx_proc,           \* the wfb_rx child
    connected,         \* the CLI connections the reactor holds open
    top_cfg,           \* what init() reads besides the services: role, stats port
    services,          \* parse_services(): the cfg of each service, in list order
    top_pc,            \* where init() stands
    top_exc,           \* the failure init() ended with, and the service it came from
    svc_df,            \* init(): the state of each builder's Deferred in dl
    svc_workers,       \* per service, the worker processes that run
    svc_spawned,       \* per service, the workers spawnProcess was called for
    stats_listening,   \* the stats TCP listener of init()
    ticker,            \* the aggregator's temperature LoopingCall runs
    cmds,              \* init_wlans: the external commands issued so far, in order
    sleeping,          \* init_wlans is suspended in df_sleep(1), no command runs
    last_call,         \* the last handler run: its name, its input, the state it consumed
    emitted,           \* calls made / records sent by the last handler, in order
    raised             \* exception that escaped the last handler ("none" if none)

aggVars == <<settings, tx_sel, ant_sel_cb_list, peer, rssi_cb_l, ui_sessions, logger, rf_temperature>>
rxVars == <<rx_ant, rx_count_all, rx_session>>
txVars == <<tx_ports, tx_control_port, tx_ant, tx_count_all, ports_df, control_port_df>>
svcVars == <<svc, b_pc, b_exc, sockets, opened, tx_proc, rx_proc>>
topVars == <<top_cfg, services, top_pc, top_exc, svc_df, svc_workers, svc_spawned,
             stats_listening, ticker, cmds, sleeping>>
vars == <<settings, tx_sel, ant_sel_cb_list, peer, rssi_cb_l, ui_sessions, logger, rf_temperature,
          rx_ant, rx_count_all, rx_session,
          tx_ports, tx_control_port, tx_ant, tx_count_all, ports_df, control_port_df,
          svc, b_pc, b_exc, sockets, opened, tx_proc, rx_proc,
          connected, top_cfg, services, top_pc, top_exc, svc_df, svc_workers, svc_spawned,
          stats_listening, ticker, cmds, sleeping,
          last_call, emitted, raised>>

\* ----------------------------------------------------------------- helpers
SetMax(S) == CHOOSE x \in S : \A y \in S : y <= x
SetMin(S) == CHOOSE x \in S : \A y \in S : x <= y
Max2(a, b) == IF a >= b THEN a ELSE b
Min2(a, b) == IF a <= b THEN a ELSE b
Range(s) == {s[i] : i \in DOMAIN s}

RECURSIVE SumOver(_, _)
SumOver(S, f) ==
    IF S = {} THEN 0
    ELSE LET x == CHOOSE y \in S : TRUE IN f[x] + SumOver(S \ {x}, f)

RECURSIVE Flatten(_)
Flatten(ss) == IF ss = <<>> THEN <<>> ELSE Head(ss) \o Flatten(Tail(ss))

\* int(token): the decimal tokens that occur in the modelled telemetry
IntOf ==
    ("0" :> 0) @@ ("1" :> 1) @@ ("2" :> 2) @@ ("3" :> 3) @@ ("4" :> 4) @@ ("5" :> 5)
    @@ ("7" :> 7) @@ ("8" :> 8) @@ ("10" :> 10) @@ ("12" :> 12) @@ ("20" :> 20) @@ ("30" :> 30)
    @@ ("-50" :> -50) @@ ("-55" :> -55) @@ ("-58" :> -58) @@ ("-60" :> -60)
    @@ ("-70" :> -70) @@ ("5180" :> 5180) @@ ("5200" :> 5200)
    @@ ("5000" :> 5000) @@ ("5001" :> 5001) @@ ("5002" :> 5002) @@ ("6000" :> 6000)
    @@ ("6001" :> 6001) @@ ("40000" :> 40000) @@ ("70000" :> 70000)

\* int(token, 16)
HexOf ==
    ("0" :> 0) @@ ("1" :> 1) @@ ("100" :> 256) @@ ("101" :> 257) @@ ("200" :> 512)

\* tuple(int(i) for i in col.split(':')): ok is FALSE when int() raises ValueError
int_tuple(col) ==
    IF \A i \in DOMAIN col : col[i] \in DOMAIN IntOf
    THEN [ok |-> TRUE, v |-> [i \in DOMAIN col |-> IntOf[col[i]]]]
    ELSE [ok |-> FALSE, v |-> <<>>]

\* int(col, 16) of a whole column: a ':' inside the column is not a hex digit
hex_int(col) ==
    IF Len(col) = 1 /\ col[1] \in DOMAIN HexOf
    THEN [ok |-> TRUE, v |-> HexOf[col[1]]]
    ELSE [ok |-> FALSE, v |-> 0]

\* ------------------------------------------------------ fold by frequency
\* ant_stats: function from <<freq_key, ant_id>> to the value tuple stored by RX_ANT
FoldWellFormed(ant_stats) ==
    \A k \in DOMAIN ant_stats : Len(k[1]) = 3 /\ Len(ant_stats[k]) = 7

EntriesOf(ant_stats, ant_id) == {k \in DOMAIN ant_stats : k[2] = ant_id}

FoldAccUnweighted(ant_stats, ant_id) ==
    LET E == EntriesOf(ant_stats, ant_id)
        pkt == [k \in E |-> ant_stats[k][1]]
        r == [k \in E |-> ant_stats[k][3]]
        sn == [k \in E |-> ant_stats[k][6]]
    IN  << SumOver(E, pkt),
           SetMin({ant_stats[k][2] : k \in E}),
           SumOver(E, r),
           SetMax({ant_stats[k][4] : k \in E}),
           SetMin({ant_stats[k][5] : k \in E}),
           SumOver(E, sn),
           SetMax({ant_stats[k][7] : k \in E}) >>

\* the accumulated tuple of one antenna before the final division
FoldAcc(ant_stats, ant_id) ==
    LET E == EntriesOf(ant_stats, ant_id)
        pkt == [k \in E |-> ant_stats[k][1]]
        wr == [k \in E |-> ant_stats[k][3] * ant_stats[k][1]]
        ws == [k \in E |-> ant_stats[k][6] * ant_stats[k][1]]
    IN  << SumOver(E, pkt),
           SetMin({ant_stats[k][2] : k \in E}),
           SumOver(E, wr),
           SetMax({ant_stats[k][4] : k \in E}),
           SetMin({ant_stats[k][5] : k \in E}),
           SumOver(E, ws),
           SetMax({ant_stats[k][7] : k \in E}) >>

FoldDiv(acc) ==
    << acc[1], acc[2], acc[3] \div acc[1], acc[4], acc[5], acc[6] \div acc[1], acc[7] >>

\* _stats_agg_by_freq: exc names the exception of the unpacking or of the division
stats_agg_by_freq(ant_stats) ==
    LET ants == {k[2] : k \in DOMAIN ant_stats} IN
    IF ~FoldWellFormed(ant_stats)
    THEN [exc |-> "ValueError", agg |-> <<>>]
    ELSE IF \E a \in ants : FoldAcc(ant_stats, a)[1] = 0
    THEN [exc |-> "ZeroDivisionError", agg |-> <<>>]
    ELSE [exc |-> "none", agg |-> [a \in ants |-> FoldDiv(FoldAcc(ant_stats, a))]]

\* ------------------------------------------------------ antenna selection
WlanIdx(ant_id) == (ant_id \div AntShift) % 256

\* per wlan: <<max rssi_avg, max pkt_s>> over the wlan's antennas
wlan_rssi_and_pkts(stats_agg) ==
    LET ks == {WlanIdx(a) : a \in DOMAIN stats_agg} IN
    [k \in ks |->
        LET grp == {a \in DOMAIN stats_agg : WlanIdx(a) = k} IN
        << SetMax({stats_agg[a][3] : a \in grp}), SetMax({stats_agg[a][1] : a \in grp}) >>]

max_pkts_of(w) == SetMax({0} \cup {w[k][2] : k \in DOMAIN w})

\* tx_sel_counter_thr scaled by the denominator of tx_sel_counter_rel_delta
ThrScaledSum(max_pkts) ==
    settings.rel_den * max_pkts
      - (settings.rel_den * settings.tx_sel_counter_abs_delta + max_pkts * settings.rel_num)

tx_sel_counter_thr_scaled(max_pkts) ==
    settings.rel_den * max_pkts
      - Max2(settings.rel_den * settings.tx_sel_counter_abs_delta, max_pkts * settings.rel_num)

ants_with_max_pkts(w) ==
    {idx \in DOMAIN w : settings.rel_den * w[idx][2] >= tx_sel_counter_thr_scaled(max_pkts_of(w))}

new_tx_ant_any(w, cands) ==
    CHOOSE idx \in DOMAIN w : \A j \in DOMAIN w :
        w[j][1] < w[idx][1] \/ (w[j][1] = w[idx][1] /\ j <= idx)

new_tx_ant_low_idx(w, cands) ==
    CHOOSE idx \in cands : \A j \in cands :
        w[j][1] < w[idx][1] \/ (w[j][1] = w[idx][1] /\ j >= idx)

\* max((rssi, idx) for idx in ants_with_max_pkts): tuples compare lexicographically
new_tx_ant_of(w, cands) ==
    CHOOSE idx \in cands : \A j \in cands :
        w[j][1] < w[idx][1] \/ (w[j][1] = w[idx][1] /\ j <= idx)

cur_max_rssi_of(w, sel) == IF sel \in DOMAIN w THEN w[sel][1] ELSE AbsentRssi

KeepCurrentNarrow(sel, cands, new_max_rssi, cur_max_rssi) ==
    sel \in cands /\ new_max_rssi - cur_max_rssi < settings.tx_sel_rssi_delta - 1

KeepCurrentAnySel(sel, cands, new_max_rssi, cur_max_rssi) ==
    new_max_rssi - cur_max_rssi < settings.tx_sel_rssi_delta

\* the hysteresis test of select_tx_antenna
KeepCurrent(sel, cands, new_max_rssi, cur_max_rssi) ==
    sel \in cands /\ new_max_rssi - cur_max_rssi < settings.tx_sel_rssi_delta

SelectDecisionNoSameTest(stats_agg, sel) ==
    LET w == wlan_rssi_and_pkts(stats_agg)
        cands == ants_with_max_pkts(w)
    IN  IF DOMAIN w = {} \/ cands = {}
        THEN [switch |-> FALSE, new |-> sel]
        ELSE LET new == new_tx_ant_of(w, cands) IN
             IF KeepCurrent(sel, cands, w[new][1], cur_max_rssi_of(w, sel))
             THEN [switch |-> FALSE, new |-> sel]
             ELSE [switch |-> TRUE, new |-> new]

\* the decision of select_tx_antenna: whether it switches, and to which wlan
SelectDecision(stats_agg, sel) ==
    LET w == wlan_rssi_and_pkts(stats_agg)
        cands == ants_with_max_pkts(w)
    IN  IF DOMAIN w = {} \/ cands = {}
        THEN [switch |-> FALSE, new |-> sel]
        ELSE LET new == new_tx_ant_of(w, cands) IN
             IF new = sel THEN [switch |-> FALSE, new |-> sel]
             ELSE IF KeepCurrent(sel, cands, w[new][1], cur_max_rssi_of(w, sel))
             THEN [switch |-> FALSE, new |-> sel]
             ELSE [switch |-> TRUE, new |-> new]

\* one callback invocation inside try/except Exception: log.err()
GuardedCall(e) == IF e.raised THEN <<e, [ev |-> "log_err"]>> ELSE <<e>>

AntSelEvent(cb, idx, fail) == [ev |-> "ant_sel_cb", cb |-> cb, idx |-> idx, raised |-> cb \in fail]

\* the callback loop of select_tx_antenna followed by the assignment of tx_sel
SwitchEventsAbort(cbs, new, fail) ==
    LET firstBad == IF \E i \in DOMAIN cbs : cbs[i] \in fail
                    THEN SetMin({i \in DOMAIN cbs : cbs[i] \in fail}) ELSE Len(cbs)
    IN  Flatten([i \in 1..firstBad |-> GuardedCall(AntSelEvent(cbs[i], new, fail))])
        \o <<[ev |-> "set_tx_sel", idx |-> new]>>

SwitchEvents(cbs, new, fail) ==
    Flatten([i \in DOMAIN cbs |-> GuardedCall(AntSelEvent(cbs[i], new, fail))])
    \o <<[ev |-> "set_tx_sel", idx |-> new]>>

\* select_tx_antenna: the new tx_sel and the calls it made
select_tx_antenna(stats_agg, sel, cbs, fail) ==
    LET d == SelectDecision(stats_agg, sel) IN
    IF d.switch
    THEN [tx_sel |-> d.new, ev |-> SwitchEvents(cbs, d.new, fail)]
    ELSE [tx_sel |-> sel, ev |-> <<>>]

\* ------------------------------------------------------- update_rx_stats
LinkFlagsByRate(card_rssi, packet_stats) ==
    LET i == IF settings.mavlink_err_rate THEN 1 ELSE 2 IN
    IF card_rssi = {} THEN LINK_LOST
    ELSE IF packet_stats.dec_err[i] + packet_stats.bad[i] > 0 THEN LINK_JAMMED
    ELSE 0

\* flags of update_rx_stats: the jammed test reads the delta column
LinkFlags(card_rssi, packet_stats) ==
    IF card_rssi = {} THEN LINK_LOST
    ELSE IF packet_stats.dec_err[1] + packet_stats.bad[1] > 0 THEN LINK_JAMMED
    ELSE 0

RssiArgsUnclamped(rx_id, card_rssi, packet_stats) ==
    LET i == IF settings.mavlink_err_rate THEN 1 ELSE 2 IN
    [rx_id |-> rx_id,
     mav_rssi |-> (IF card_rssi = {} THEN NoSignalRssi ELSE SetMax(card_rssi)) % 256,
     rx_errors |-> packet_stats.dec_err[i] + packet_stats.bad[i] + packet_stats.lost[i],
     rx_fec |-> packet_stats.fec_rec[i],
     flags |-> LinkFlags(card_rssi, packet_stats)]

\* the arguments of rssi_cb: _idx selects the delta or the total column
RssiArgs(rx_id, card_rssi, packet_stats) ==
    LET i == IF settings.mavlink_err_rate THEN 1 ELSE 2 IN
    [rx_id |-> rx_id,
     mav_rssi |-> (IF card_rssi = {} THEN NoSignalRssi ELSE SetMax(card_rssi)) % 256,
     rx_errors |-> Min2(packet_stats.dec_err[i] + packet_stats.bad[i] + packet_stats.lost[i], CounterMax),
     rx_fec |-> Min2(packet_stats.fec_rec[i], CounterMax),
     flags |-> LinkFlags(card_rssi, packet_stats)]

RssiEvents(cbs, args, fail) ==
    Flatten([i \in DOMAIN cbs |->
        GuardedCall([ev |-> "rssi_cb", cb |-> cbs[i], args |-> args, raised |-> cbs[i] \in fail])])

RxRecord(rx_id, sel, packet_stats, ant_stats, session) ==
    [type |-> "rx", id |-> rx_id, tx_ant |-> sel, packets |-> packet_stats,
     rx_ant_stats |-> ant_stats, session |-> session]

Broadcast(sessions, rec) ==
    [i \in DOMAIN sessions |-> [ev |-> "send", to |-> sessions[i], rec |-> rec]]

\* the order of the three stages of update_rx_stats
StagesBroadcastFirst(selEv, rssiEv, sendEv) == sendEv \o selEv \o rssiEv

Stages(selEv, rssiEv, sendEv) == selEv \o rssiEv \o sendEv

update_rx_stats_unguarded(rx_id, packet_stats, ant_stats, session, fa, fr) ==
    LET f == stats_agg_by_freq(ant_stats) IN
    IF f.exc # "none"
    THEN [raised |-> f.exc, tx_sel |-> tx_sel, ev |-> <<>>]
    ELSE
      LET stats_agg == f.agg
          card_rssi == {stats_agg[a][3] : a \in DOMAIN stats_agg}
          s == IF DOMAIN stats_agg # {}
               THEN select_tx_antenna(stats_agg, tx_sel, ant_sel_cb_list, fa)
               ELSE [tx_sel |-> tx_sel, ev |-> <<>>]
          rssiEv == IF rssi_cb_l # <<>>
                    THEN RssiEvents(rssi_cb_l, RssiArgs(rx_id, card_rssi, packet_stats), fr)
                    ELSE <<>>
          sendEv == Broadcast(ui_sessions,
                              RxRecord(rx_id, s.tx_sel, packet_stats, ant_stats, session))
      IN [raised |-> "none", tx_sel |-> s.tx_sel, ev |-> Stages(s.ev, rssiEv, sendEv)]

\* update_rx_stats: fa / fr are the callbacks that raise during this update
update_rx_stats(rx_id, packet_stats, ant_stats, session, fa, fr) ==
    LET f == stats_agg_by_freq(ant_stats) IN
    IF f.exc # "none"
    THEN [raised |-> f.exc, tx_sel |-> tx_sel, ev |-> <<>>]
    ELSE
      LET stats_agg == f.agg
          card_rssi == {stats_agg[a][3] : a \in DOMAIN stats_agg}
          s == IF DOMAIN stats_agg # {} /\ ant_sel_cb_list # <<>>
               THEN select_tx_antenna(stats_agg, tx_sel, ant_sel_cb_list, fa)
               ELSE [tx_sel |-> tx_sel, ev |-> <<>>]
          rssiEv == IF rssi_cb_l # <<>>
                    THEN RssiEvents(rssi_cb_l, RssiArgs(rx_id, card_rssi, packet_stats), fr)
                    ELSE <<>>
          sendEv == Broadcast(ui_sessions,
                              RxRecord(rx_id, s.tx_sel, packet_stats, ant_stats, session))
      IN [raised |-> "none", tx_sel |-> s.tx_sel, ev |-> Stages(s.ev, rssiEv, sendEv)]

\* ------------------------------------------- RXAntennaProtocol.lineReceived
RX_ID == "mavlink rx"
NoSession == [fec_type |-> "None", fec_k |-> 0, fec_n |-> 0, epoch |-> 0]

Put(f, k, v) == [x \in DOMAIN f \cup {k} |-> IF x = k THEN v ELSE f[x]]

\* (p_all, b_all, p_dec_err, p_dec_ok, p_fec_rec, p_lost, p_bad, p_outgoing, b_outgoing)
\* reordered to (all, all_bytes, dec_ok, fec_rec, lost, dec_err, bad, out, out_bytes)
RxCounters(p) == <<p[1], p[2], p[4], p[5], p[6], p[3], p[7], p[8], p[9]>>

CountAllLast(cur, d) == d

\* count_all: the first PKT stores the counters, later ones add field by field
CountAllAdd(cur, d) ==
    IF cur = <<>> THEN d ELSE [i \in 1..Min2(Len(d), Len(cur)) |-> d[i] + cur[i]]

RxStats(d, t) ==
    [all |-> <<d[1], t[1]>>, all_bytes |-> <<d[2], t[2]>>, dec_ok |-> <<d[3], t[3]>>,
     fec_rec |-> <<d[4], t[4]>>, lost |-> <<d[5], t[5]>>, dec_err |-> <<d[6], t[6]>>,
     bad |-> <<d[7], t[7]>>, out |-> <<d[8], t[8]>>, out_bytes |-> <<d[9], t[9]>>]

FecTypeName(n) == IF n = 1 THEN "VDM_RS" ELSE "Unknown"

\* process_new_session: the record goes to the logger only
process_new_session(rx_id, session) ==
    IF logger
    THEN <<[ev |-> "send", to |-> "log",
            rec |-> [type |-> "new_session", id |-> rx_id, fec_type |-> session.fec_type,
                     fec_k |-> session.fec_k, fec_n |-> session.fec_n,
                     epoch |-> session.epoch]]>>
    ELSE <<>>

BadTelemetryLog(id) == [ev |-> "log_error", id |-> id]

\* the effect of one call of RXAntennaProtocol.lineReceived
RXResult(line, fa, fr) ==
    LET keep(ev, exc) ==
            [ant |-> rx_ant, count_all |-> rx_count_all, session |-> rx_session,
             tx_sel |-> tx_sel, ev |-> ev, raised |-> exc]
        bad == keep(<<BadTelemetryLog(RX_ID)>>, "none")
        valerr == keep(<<>>, "ValueError")
    IN
    IF Len(line) < 2 THEN bad
    ELSE IF line[2] = <<"RX_ANT">> THEN
        IF Len(line) # 5 THEN bad
        ELSE LET val == int_tuple(line[5])
                 fk == int_tuple(line[3])
                 a == hex_int(line[4])
             IN  IF ~val.ok \/ ~fk.ok \/ ~a.ok THEN valerr
                 ELSE [keep(<<>>, "none") EXCEPT !.ant = Put(rx_ant, <<fk.v, a.v>>, val.v)]
    ELSE IF line[2] = <<"PKT">> THEN
        IF Len(line) # 3 THEN bad
        ELSE LET p == int_tuple(line[3]) IN
             IF ~p.ok \/ Len(p.v) # 9 THEN valerr
             ELSE LET d == RxCounters(p.v)
                      total == CountAllAdd(rx_count_all, d)
                      u == update_rx_stats(RX_ID, RxStats(d, total), rx_ant, rx_session, fa, fr)
                  IN  [ant |-> IF u.raised = "none" THEN <<>> ELSE rx_ant,
                       count_all |-> total, session |-> rx_session,
                       tx_sel |-> u.tx_sel, ev |-> u.ev, raised |-> u.raised]
    ELSE IF line[2] = <<"SESSION">> THEN
        IF Len(line) # 3 THEN bad
        ELSE LET p == int_tuple(line[3]) IN
             IF ~p.ok \/ Len(p.v) # 4 THEN valerr
             ELSE LET s == [fec_type |-> FecTypeName(p.v[2]), fec_k |-> p.v[3],
                            fec_n |-> p.v[4], epoch |-> p.v[1]]
                  IN  [keep(process_new_session(RX_ID, s), "none") EXCEPT !.session = s]
    ELSE bad

IsPkt(line) == Len(line) >= 2 /\ line[2] = <<"PKT">>

\* which callbacks may raise during the handling of this line
FailChoices(line, cbs) == IF IsPkt(line) THEN SUBSET Range(cbs) ELSE {{}}

NoPre == [tx_sel |-> 0, ant |-> <<>>, count_all |-> <<>>]
Call(op, line, pre) == [op |-> op, line |-> line, pre |-> pre]

\* def ant_sel_cb(ant_idx): p_in.peer = p_tx_l[ant_idx], applied for each callback
\* invocation of ev that returned
RECURSIVE PeersAfter(_, _)
PeersAfter(p, ev) ==
    IF ev = <<>> THEN p
    ELSE LET e == Head(ev)
             p1 == IF e.ev = "ant_sel_cb" /\ ~e.raised THEN [p EXCEPT ![e.cb] = <<e.idx>>] ELSE p
         IN  PeersAfter(p1, Tail(ev))

add_ant_sel_cb_nic0(fails) ==
    /\ Len(ant_sel_cb_list) < MaxCbs
    /\ LET cb == Len(ant_sel_cb_list) + 1 IN
       /\ ant_sel_cb_list' = Append(ant_sel_cb_list, cb)
       /\ emitted' = <<AntSelEvent(cb, 0, IF fails THEN {cb} ELSE {})>>
       /\ peer' = PeersAfter(Append(peer, <<>>), <<AntSelEvent(cb, 0, IF fails THEN {cb} ELSE {})>>)
    /\ raised' = IF fails THEN "Exception" ELSE "none"
    /\ last_call' = Call("add_ant_sel_cb", <<>>, NoPre)
    /\ UNCHANGED <<settings, tx_sel, rssi_cb_l, ui_sessions, logger, rxVars, txVars, svcVars, topVars, rf_temperature, connected>>

RXLineReceived(line, fa, fr) ==
    LET r == RXResult(line, fa, fr) IN
    /\ rx_ant' = r.ant
    /\ rx_count_all' = r.count_all
    /\ rx_session' = r.session
    /\ tx_sel' = r.tx_sel
    /\ peer' = PeersAfter(peer, r.ev)
    /\ emitted' = r.ev
    /\ raised' = r.raised
    /\ last_call' = Call("rx_line", line,
                         IF IsPkt(line)
                         THEN [tx_sel |-> tx_sel, ant |-> rx_ant, count_all |-> rx_count_all]
                         ELSE NoPre)
    /\ UNCHANGED <<settings, ant_sel_cb_list, rssi_cb_l, ui_sessions, logger, txVars, svcVars,
                   topVars, rf_temperature, connected>>

\* ------------------------------------------------ aggregator registration
\* add_ant_sel_cb: append, then call the callback with the current tx_sel
add_ant_sel_cb(fails) ==
    /\ Len(ant_sel_cb_list) < MaxCbs
    /\ LET cb == Len(ant_sel_cb_list) + 1 IN
       /\ ant_sel_cb_list' = Append(ant_sel_cb_list, cb)
       /\ emitted' = <<AntSelEvent(cb, tx_sel, IF fails THEN {cb} ELSE {})>>
       /\ peer' = PeersAfter(Append(peer, <<>>), <<AntSelEvent(cb, tx_sel, IF fails THEN {cb} ELSE {})>>)
    /\ raised' = IF fails THEN "Exception" ELSE "none"
    /\ last_call' = Call("add_ant_sel_cb", <<>>, NoPre)
    /\ UNCHANGED <<settings, tx_sel, rssi_cb_l, ui_sessions, logger, rxVars, txVars, svcVars, topVars, rf_temperature, connected>>

add_rssi_cb ==
    /\ Len(rssi_cb_l) < MaxCbs
    /\ rssi_cb_l' = Append(rssi_cb_l, Len(rssi_cb_l) + 1)
    /\ emitted' = <<>>
    /\ raised' = "none"
    /\ last_call' = Call("add_rssi_cb", <<>>, NoPre)
    /\ UNCHANGED <<settings, tx_sel, ant_sel_cb_list, peer, ui_sessions, logger, rxVars, txVars, svcVars, topVars, rf_temperature, connected>>

got_temp_resets(temp_d) ==
    /\ rf_temperature' = temp_d
    /\ tx_sel' = 0
    /\ emitted' = <<>>
    /\ raised' = "none"
    /\ last_call' = Call("got_temp", <<>>, NoPre)
    /\ UNCHANGED <<settings, ant_sel_cb_list, peer, rssi_cb_l, ui_sessions, logger, rxVars, txVars,
                   svcVars, topVars, connected>>

\* read_temperature: _got_temp stores the map that the reading thread returned
got_temp(temp_d) ==
    /\ rf_temperature' = temp_d
    /\ emitted' = <<>>
    /\ raised' = "none"
    /\ last_call' = Call("got_temp", <<>>, NoPre)
    /\ UNCHANGED <<settings, tx_sel, ant_sel_cb_list, peer, rssi_cb_l, ui_sessions, logger, rxVars,
                   txVars, svcVars, topVars, connected>>

\* ------------------------------------------------------ StatisticsProtocol
CliIds == <<"cli1", "cli2", "cli3">>
CliSessions == {s \in Range(ui_sessions) : s # "log"}

TitleNone(s) == <<>>

\* sendString(msgpack.packb(dict(type='cli_title', ...))) on the new connection
TitleEvents(s) == <<[ev |-> "send", to |-> s, rec |-> [type |-> "cli_title"]]>>

\* connectionMade: send the cli_title frame, then join the broadcast list
connectionMade ==
    /\ Cardinality(connected) < MaxSessions
    /\ \E i \in DOMAIN CliIds :
        /\ CliIds[i] \notin connected
        /\ \A j \in 1..(i-1) : CliIds[j] \in connected
        /\ emitted' = TitleEvents(CliIds[i])
        /\ ui_sessions' = Append(ui_sessions, CliIds[i])
        /\ connected' = connected \cup {CliIds[i]}
    /\ raised' = "none"
    /\ last_call' = Call("connectionMade", <<>>, NoPre)
    /\ UNCHANGED <<settings, tx_sel, ant_sel_cb_list, peer, rssi_cb_l, logger, rxVars, txVars, svcVars, topVars, rf_temperature>>

RemoveNothing(s, x) == s

\* list.remove(x): drop the first occurrence
Remove(s, x) ==
    LET i == SetMin({j \in DOMAIN s : s[j] = x}) IN
    [j \in 1..(Len(s) - 1) |-> IF j < i THEN s[j] ELSE s[j + 1]]

connectionLost(s) ==
    /\ s \in connected
    /\ ui_sessions' = Remove(ui_sessions, s)
    /\ connected' = connected \ {s}
    /\ emitted' = <<>>
    /\ raised' = "none"
    /\ last_call' = Call("connectionLost", <<>>, NoPre)
    /\ UNCHANGED <<settings, tx_sel, ant_sel_cb_list, peer, rssi_cb_l, logger, rxVars, txVars, svcVars, topVars, rf_temperature>>

\* ---------------------------------------------------------------- Deferred
\* st: the state of the Deferred ("none" when the attribute is None); val: the
\* value handed to the waiter when it was fired; n: the times it was fired;
\* suppress: a cancelled Deferred swallows the next callback
NoDf == [st |-> "none", val |-> <<>>, n |-> 0, suppress |-> FALSE]
NewDf == [st |-> "pending", val |-> <<>>, n |-> 0, suppress |-> FALSE]

\* df.callback(v): fires a pending Deferred; a Deferred cancelled without a
\* canceller swallows the first callback after the cancel; any other call
\* leaves the Deferred as it is
DfCallback(d, v) ==
    IF d.st = "pending" THEN [st |-> "called", val |-> v, n |-> d.n + 1, suppress |-> FALSE]
    ELSE IF d.st = "cancelled" /\ d.suppress THEN [d EXCEPT !.suppress = FALSE]
    ELSE d

\* what df.callback raises to its caller: nothing when the Deferred is pending
\* or swallows the call, AlreadyCalledError when it was fired before or was
\* cancelled and has swallowed a call already
DfCallbackExc(d) ==
    IF d.st = "called" \/ (d.st = "cancelled" /\ ~d.suppress)
    THEN "AlreadyCalledError" ELSE "none"

DfCancelNone(d) == d

\* df.cancel(): a pending Deferred fails with CancelledError and will swallow
\* one later callback, a fired one is left alone
DfCancel(d) ==
    IF d.st = "pending" THEN [d EXCEPT !.st = "cancelled", !.suppress = TRUE] ELSE d

\* a parser that would put a new promise in the place of a settled one and fire it
FireAnew(d, v) ==
    [df |-> [st |-> "called", val |-> v, n |-> d.n + 1, suppress |-> FALSE],
     exc |-> "none", fired |-> TRUE]

\* self.ports_df.callback(self.ports) / self.control_port_df.callback(self.control_port):
\* the parser calls callback on the one Deferred it was constructed with, on
\* every LISTEN_UDP_END / LISTEN_UDP_CONTROL record; fired tells whether this
\* call handed the value to the waiter
FirePromise(d, v) ==
    [df |-> DfCallback(d, v), exc |-> DfCallbackExc(d), fired |-> d.st = "pending"]

\* ------------------------------------------- TXAntennaProtocol.lineReceived
TX_ID == "mavlink tx"

TxStats(d, t) ==
    [fec_timeouts |-> <<d[1], t[1]>>, incoming |-> <<d[2], t[2]>>,
     incoming_bytes |-> <<d[3], t[3]>>, injected |-> <<d[4], t[4]>>,
     injected_bytes |-> <<d[5], t[5]>>, dropped |-> <<d[6], t[6]>>,
     truncated |-> <<d[7], t[7]>>]

\* rf_temperature is the map the last temperature reading left
TxRecord(tx_id, packet_stats, ant_latency) ==
    [type |-> "tx", id |-> tx_id, packets |-> packet_stats, latency |-> ant_latency,
     rf_temperature |-> rf_temperature]

\* update_tx_stats: the 'tx' record goes to every subscriber
update_tx_stats(tx_id, packet_stats, ant_latency) ==
    Broadcast(ui_sessions, TxRecord(tx_id, packet_stats, ant_latency))

\* the effect of one call of TXAntennaProtocol.lineReceived on the parser and on
\* its two Deferreds; fired names the Deferred this call has fired
TXResult(line) ==
    LET keep(exc) ==
            [ports |-> tx_ports, control_port |-> tx_control_port, ant |-> tx_ant,
             count_all |-> tx_count_all, ports_df |-> ports_df,
             control_port_df |-> control_port_df, ev |-> <<>>, raised |-> exc,
             fired |-> "none"]
        cmd == line[2]
    IN
    IF Len(line) < 2 THEN keep("none")
    ELSE IF cmd = <<"LISTEN_UDP">> /\ Len(line) = 3 THEN
        IF Len(line[3]) < 2 \/ line[3][1] \notin DOMAIN IntOf THEN keep("ValueError")
        ELSE [keep("none") EXCEPT !.ports = Put(tx_ports, Tail(line[3]), IntOf[line[3][1]])]
    ELSE IF cmd = <<"LISTEN_UDP_END">> /\ ports_df.st # "none" THEN
        LET f == FirePromise(ports_df, tx_ports) IN
        [keep(f.exc) EXCEPT
            !.ports_df = f.df,
            !.fired = IF f.fired THEN "ports" ELSE "none"]
    ELSE IF cmd = <<"LISTEN_UDP_CONTROL">> /\ Len(line) = 3 /\ control_port_df.st # "none" THEN
        IF Len(line[3]) # 1 \/ line[3][1] \notin DOMAIN IntOf THEN keep("ValueError")
        ELSE LET port == IntOf[line[3][1]]
                 f == FirePromise(control_port_df, port)
             IN
             [keep(f.exc) EXCEPT
                 !.control_port = port,
                 !.control_port_df = f.df,
                 !.fired = IF f.fired THEN "control" ELSE "none"]
    ELSE IF cmd = <<"TX_ANT">> THEN
        IF Len(line) # 4 THEN keep("BadTelemetry")
        ELSE LET val == int_tuple(line[4])
                 a == hex_int(line[3])
             IN  IF ~val.ok \/ ~a.ok THEN keep("ValueError")
                 ELSE [keep("none") EXCEPT !.ant = Put(tx_ant, a.v, val.v)]
    ELSE IF cmd = <<"PKT">> THEN
        IF Len(line) # 3 THEN keep("BadTelemetry")
        ELSE LET p == int_tuple(line[3]) IN
             IF ~p.ok \/ Len(p.v) # 7 THEN keep("ValueError")
             ELSE LET total == CountAllAdd(tx_count_all, p.v) IN
                  [keep("none") EXCEPT
                      !.count_all = total,
                      !.ev = update_tx_stats(TX_ID, TxStats(p.v, total), tx_ant),
                      !.ant = <<>>]
    ELSE keep("none")

\* --------------------------------------------------------- service builders
Wlans == << <<"wlan0">>, <<"wlan1">> >>
TxSockets == <<"tx0", "tx1">>

NoSvc ==
    [type |-> "none", peer |-> "none", mirror |-> FALSE, control0 |-> FALSE, tcp |-> FALSE,
     has_rx |-> FALSE, has_tx |-> FALSE]

\* the builder's view: its position, its locals and what it can change
BNow ==
    [pc |-> b_pc, exc |-> b_exc, sockets |-> sockets, opened |-> opened,
     tx_proc |-> tx_proc, rx_proc |-> rx_proc, ant_cbs |-> ant_sel_cb_list,
     rssi_cbs |-> rssi_cb_l, ev |-> <<>>]

\* an exception leaves the generator: the builder's Deferred fails with it
Fail(b, exc) == [b EXCEPT !.pc = "failed", !.exc = exc]

\* reactor.listenUDP / listenTCP / SerialPort / TUNTAPTransport; listed tells
\* whether the result is added to the local list 'sockets'
Open(b, name, listed) ==
    [b EXCEPT !.opened = @ \cup {name},
              !.sockets = IF listed THEN Append(@, name) ELSE @]

\* the workers whose Deferreds are in dl when gatherResults is called
Workers ==
    CASE svc.type \in {"mavlink", "tunnel"} -> {"tx", "rx"}
      [] svc.type = "udp_proxy" ->
            (IF svc.has_rx THEN {"rx"} ELSE {}) \cup (IF svc.has_tx THEN {"tx"} ELSE {})
      [] svc.type = "udp_direct_tx" -> {"tx"}
      [] svc.type = "udp_direct_rx" -> {"rx"}
      [] OTHER -> {}

ProcOf(b, w) == IF w = "tx" THEN b.tx_proc ELSE b.rx_proc

\* _cleanup of init_mavlink, init_tunnel and init_udp_proxy
Cleanup(b) ==
    LET extra == CASE svc.type = "mavlink" -> {"serial"}
                   [] svc.type = "tunnel" -> {"tun"}
                   [] OTHER -> {}
    IN  [b EXCEPT !.opened = @ \ (Range(b.sockets) \cup extra)]

\* gatherResults(dl, consumeErrors=True).addBoth(_cleanup): fails with the first
\* worker that failed, succeeds when every worker has exited with code 0
Gather(b) ==
    IF \E w \in Workers : ProcOf(b, w) = "exit1"
    THEN Cleanup(Fail(b, "ProcessTerminated"))
    ELSE IF \A w \in Workers : ProcOf(b, w) = "exit0"
    THEN Cleanup([b EXCEPT !.pc = "done"])
    ELSE [b EXCEPT !.pc = "running"]

\* the builder from the per-NIC proxies up to gatherResults
Wire(b, ports) ==
    IF \E i \in DOMAIN Wlans : Wlans[i] \notin DOMAIN ports
    THEN Fail(b, "KeyError")
    ELSE
      LET b1 == CASE svc.type = "mavlink" ->
                        IF svc.peer = "serial" THEN Open(b, "serial", FALSE)
                        ELSE Open(b, "in", TRUE)
                  [] svc.type = "tunnel" -> Open(b, "tun", FALSE)
                  [] OTHER -> b
          b2 == [b1 EXCEPT !.opened = @ \cup Range(TxSockets), !.sockets = @ \o TxSockets]
          cb == Len(b2.ant_cbs) + 1
          bad == tx_sel >= Len(Wlans)
          b3 == [b2 EXCEPT !.ant_cbs = Append(@, cb),
                           !.ev = Append(@, AntSelEvent(cb, tx_sel, IF bad THEN {cb} ELSE {}))]
          b4 == IF svc.type = "mavlink"
                THEN [b3 EXCEPT !.rssi_cbs = Append(@, Len(@) + 1)] ELSE b3
          b5 == IF svc.type \in {"mavlink", "tunnel"}
                THEN [b4 EXCEPT !.rx_proc = "running"] ELSE b4
      IN  IF bad THEN Fail(b3, "IndexError") ELSE Gather(b5)

\* the builder resumed by tx_ports_df
AfterPorts(b, cdf, ports) ==
    IF svc.control0 /\ cdf.st # "called"
    THEN [b EXCEPT !.pc = "wait_control"]
    ELSE Wire(b, ports)

\* the builder resumed by control_port_df
AfterControl(b, ports) ==
    IF svc.type = "udp_direct_tx" THEN Gather(b) ELSE Wire(b, ports)

\* the peer address schemes each builder matches cfg.peer against
PeerAllowed(cfg) ==
    CASE cfg.type = "mavlink" -> cfg.peer \in {"connect", "listen", "serial"}
      [] cfg.type = "udp_proxy" -> cfg.peer \in {"connect", "listen"}
      [] cfg.type = "udp_direct_tx" -> cfg.peer = "listen"
      [] cfg.type = "udp_direct_rx" -> cfg.peer = "connect"
      [] OTHER -> TRUE

\* the checks that make a builder raise Exception before it spawns a worker
ConfigError(cfg) ==
    \/ ~PeerAllowed(cfg)
    \/ cfg.type = "udp_direct_tx" /\ ~cfg.mirror /\ Len(Wlans) > 1

init_mavlink(b) ==
    LET b1 == Open(b, "rx", TRUE)
        b2 == IF svc.tcp THEN Open(b1, "mavtcp", FALSE) ELSE b1
    IN  IF ~PeerAllowed(svc) THEN Fail(b, "Exception")
        ELSE [b2 EXCEPT !.tx_proc = "running", !.pc = "wait_ports"]

init_tunnel(b) ==
    [Open(b, "rx", TRUE) EXCEPT !.tx_proc = "running", !.pc = "wait_ports"]

init_udp_proxy(b) ==
    LET b1 == Open(b, "in", TRUE)
        b2 == IF svc.has_rx
              THEN [Open(b1, "rx", FALSE) EXCEPT !.sockets = <<"rx">>, !.rx_proc = "running"]
              ELSE b1
    IN  IF ~PeerAllowed(svc) THEN Fail(b, "Exception")
        ELSE IF svc.has_tx
        THEN [b2 EXCEPT !.tx_proc = "running", !.pc = "wait_ports"]
        ELSE Gather(b2)

\* the peer must be listen://, and without mirror only one NIC is accepted:
\* both checks raise before wfb_tx is spawned
init_udp_direct_tx(b) ==
    IF ~PeerAllowed(svc) THEN Fail(b, "Exception")
    ELSE IF ~svc.mirror /\ Len(Wlans) > 1 THEN Fail(b, "Exception")
    ELSE [b EXCEPT !.tx_proc = "running",
                   !.pc = IF svc.control0 THEN "wait_control" ELSE "running"]

init_udp_direct_rx(b) ==
    IF ~PeerAllowed(svc) THEN Fail(b, "Exception")
    ELSE [b EXCEPT !.rx_proc = "running", !.pc = "running"]

\* the builder's effect on the aggregator, the sockets and the workers
Built(b) ==
    /\ b_pc' = b.pc
    /\ b_exc' = b.exc
    /\ sockets' = b.sockets
    /\ opened' = b.opened
    /\ tx_proc' = b.tx_proc
    /\ rx_proc' = b.rx_proc
    /\ ant_sel_cb_list' = b.ant_cbs
    /\ peer' = PeersAfter(IF Len(b.ant_cbs) > Len(peer) THEN Append(peer, <<>>) ELSE peer, b.ev)
    /\ rssi_cb_l' = b.rssi_cbs

\* init() calling the builder of the service type
StartService ==
    /\ b_pc = "idle"
    /\ LET b == CASE svc.type = "mavlink" -> init_mavlink(BNow)
                  [] svc.type = "tunnel" -> init_tunnel(BNow)
                  [] svc.type = "udp_proxy" -> init_udp_proxy(BNow)
                  [] svc.type = "udp_direct_tx" -> init_udp_direct_tx(BNow)
                  [] OTHER -> init_udp_direct_rx(BNow)
       IN  /\ Built(b)
           /\ emitted' = b.ev
           /\ ports_df' = IF b.tx_proc = "running" /\ svc.type # "udp_direct_tx"
                          THEN NewDf ELSE NoDf
           /\ control_port_df' = IF b.tx_proc = "running" /\ svc.control0
                                 THEN NewDf ELSE NoDf
    /\ raised' = "none"
    /\ last_call' = Call("start", <<>>, NoPre)
    /\ UNCHANGED <<settings, tx_sel, ui_sessions, logger, rxVars, svc, topVars, rf_temperature, connected,
                   tx_ports, tx_control_port, tx_ant, tx_count_all>>

\* TXAntennaProtocol.lineReceived, with the builder it resumes
TXLineReceived(line) ==
    LET r == TXResult(line)
        b == IF r.fired = "ports" /\ b_pc = "wait_ports"
             THEN AfterPorts(BNow, r.control_port_df, r.ports)
             ELSE IF r.fired = "control" /\ b_pc = "wait_control"
             THEN AfterControl(BNow, r.ports)
             ELSE BNow
    IN  /\ tx_ports' = r.ports
        /\ tx_control_port' = r.control_port
        /\ tx_ant' = r.ant
        /\ tx_count_all' = r.count_all
        /\ ports_df' = r.ports_df
        /\ control_port_df' = r.control_port_df
        /\ Built(b)
        /\ emitted' = r.ev \o b.ev
        /\ raised' = r.raised
        /\ last_call' = Call("tx_line", line,
                             IF IsPkt(line)
                             THEN [tx_sel |-> tx_sel, ant |-> tx_ant, count_all |-> tx_count_all]
                             ELSE NoPre)
        /\ UNCHANGED <<settings, tx_sel, ui_sessions, logger, rxVars, svc, topVars, rf_temperature, connected>>

\* TXProtocol.outReceived: stdout is read while the child runs
TXOutReceived(line) == tx_proc = "running" /\ TXLineReceived(line)

\* TXProtocol.processEnded
TXProcessEnded(rc) ==
    /\ tx_proc = "running"
    /\ LET pd == DfCancel(ports_df)
           cd == DfCancel(control_port_df)
           b0 == [BNow EXCEPT !.tx_proc = IF rc = 0 THEN "exit0" ELSE "exit1"]
           b1 == IF pd.st = "cancelled" /\ b0.pc = "wait_ports"
                 THEN Fail(b0, "CancelledError") ELSE b0
           b2 == IF cd.st = "cancelled" /\ b1.pc = "wait_control"
                 THEN Fail(b1, "CancelledError") ELSE b1
           b3 == IF b2.pc = "running" THEN Gather(b2) ELSE b2
       IN  /\ ports_df' = pd
           /\ control_port_df' = cd
           /\ Built(b3)
    /\ emitted' = <<>>
    /\ raised' = "none"
    /\ last_call' = Call("tx_exit", <<>>,
                         [ports_df |-> ports_df, control_port_df |-> control_port_df,
                          b_pc |-> b_pc])
    /\ UNCHANGED <<settings, tx_sel, ui_sessions, logger, rxVars, svc, topVars, rf_temperature, connected,
                   tx_ports, tx_control_port, tx_ant, tx_count_all>>

\* RXProtocol.processEnded
RXProcessEnded(rc) ==
    /\ rx_proc = "running"
    /\ LET b0 == [BNow EXCEPT !.rx_proc = IF rc = 0 THEN "exit0" ELSE "exit1"]
       IN  Built(IF b0.pc = "running" THEN Gather(b0) ELSE b0)
    /\ emitted' = <<>>
    /\ raised' = "none"
    /\ last_call' = Call("rx_exit", <<>>, NoPre)
    /\ UNCHANGED <<settings, tx_sel, ui_sessions, logger, rxVars, txVars, svc, topVars, rf_temperature, connected>>

\* ------------------------------------------------- telemetry used as input
F1 == <<"5180", "1", "20">>
F2 == <<"5200", "1", "20">>
AntVal(pkt, rssi) == <<pkt, "-70", rssi, "-50", "10", "20", "30">>
RxAntLine(f, ant, val) == << <<"0">>, <<"RX_ANT">>, f, <<ant>>, val >>
RxPktLine(c) == << <<"0">>, <<"PKT">>, c >>
ZeroCounters == <<"0", "0", "0", "0", "0", "0", "0", "0", "0">>

SelAntLines ==
    {RxAntLine(F1, "0", v) : v \in {AntVal("3", "-60"), AntVal("3", "-58"), AntVal("1", "-55")}}
    \cup {RxAntLine(F2, "0", v) : v \in {AntVal("1", "-55"), AntVal("0", "-60")}}
    \cup {RxAntLine(F1, "1", AntVal("3", "-58"))}
    \cup {RxAntLine(F1, "100", v) :
            v \in {AntVal("3", "-60"), AntVal("3", "-58"), AntVal("3", "-55"), AntVal("1", "-55")}}
    \cup {RxAntLine(F1, "200", AntVal("3", "-58"))}

SelLines == SelAntLines \cup {RxPktLine(ZeroCounters)}

CbLines ==
    {RxAntLine(F1, "0", AntVal("3", "-60")),
     RxAntLine(F1, "100", AntVal("3", "-55")),
     RxPktLine(ZeroCounters)}

\* ------------------------------------------------------------ initial state
SelSettings ==
    {[tx_sel_rssi_delta |-> d, tx_sel_counter_abs_delta |-> 1, rel_num |-> 1, rel_den |-> 2,
      mavlink_err_rate |-> FALSE] : d \in {0, 3}}

\* StatsAndSelectorFactory.__init__
AggInit ==
    /\ tx_sel = 0
    /\ ant_sel_cb_list = <<>>
    /\ peer = <<>>
    /\ rssi_cb_l = <<>>
    /\ ui_sessions = IF logger THEN <<"log">> ELSE <<>>
    /\ rf_temperature = <<>>

\* RXAntennaProtocol.__init__
RxInit ==
    /\ rx_ant = <<>>
    /\ rx_count_all = <<>>
    /\ rx_session = NoSession

\* TXAntennaProtocol.__init__
TxInit ==
    /\ tx_ports = <<>>
    /\ tx_control_port = 0
    /\ tx_ant = <<>>
    /\ tx_count_all = <<>>

\* no service builder and no worker process around the parsers
NoService ==
    /\ svc = NoSvc
    /\ b_pc = "none"
    /\ b_exc = "none"
    /\ sockets = <<>>
    /\ opened = {}
    /\ tx_proc = "none"
    /\ rx_proc = "none"
    /\ ports_df = NoDf
    /\ control_port_df = NoDf

\* the aggregator was constructed directly, init() is not part of the run: no
\* CLI connection yet, no listener, no command; __init__ has started the
\* temperature LoopingCall (self.lc.start(..., now=True))
NoTop ==
    /\ connected = {}
    /\ top_cfg = [primary |-> FALSE, stats_port |-> FALSE, set_nm |-> FALSE,
                  nm_status |-> <<>>, txpower |-> FALSE]
    /\ cmds = <<>>
    /\ sleeping = FALSE
    /\ services = <<>>
    /\ top_pc = "none"
    /\ top_exc = [svc |-> 0, exc |-> "none"]
    /\ svc_df = <<>>
    /\ svc_workers = <<>>
    /\ svc_spawned = <<>>
    /\ stats_listening = FALSE
    /\ ticker = TRUE

\* __init__ with a logger: logger.send_stats(dict(type='init', ...)) before the
\* logger is put on ui_sessions
InitRecord ==
    [type |-> "init", profile |-> "gs", wlans |-> [i \in DOMAIN Wlans |-> Wlans[i][1]],
     link_domain |-> "default"]

InitEvents ==
    IF logger THEN <<[ev |-> "send", to |-> "log", rec |-> InitRecord]>> ELSE <<>>

\* the aggregator has just been constructed
NoCall ==
    /\ last_call = Call("init", <<>>, NoPre)
    /\ emitted = InitEvents
    /\ raised = "none"

\* init() has not been called: nothing has run
NoCallYet ==
    /\ last_call = Call("none", <<>>, NoPre)
    /\ emitted = <<>>
    /\ raised = "none"

RxStep(lines) ==
    \E line \in lines :
        \E fa \in FailChoices(line, ant_sel_cb_list), fr \in FailChoices(line, rssi_cb_l) :
            RXLineReceived(line, fa, fr)

\* ------------------- specification SpecSel: RX telemetry driving the selector
InitSel ==
    /\ settings \in SelSettings
    /\ logger = TRUE
    /\ AggInit
    /\ RxInit
    /\ TxInit
    /\ NoService
    /\ NoTop
    /\ NoCall

NextSel ==
    \/ \E line \in SelLines : RXLineReceived(line, {}, {})
    \/ add_ant_sel_cb(FALSE)

SpecSel == InitSel /\ [][NextSel]_vars

\* --------- specification SpecCb: callbacks and subscribers around an RX update
InitCb ==
    /\ settings \in {s \in SelSettings : s.tx_sel_rssi_delta = 3}
    /\ logger \in BOOLEAN
    /\ AggInit
    /\ RxInit
    /\ TxInit
    /\ NoService
    /\ NoTop
    /\ NoCall

NextCb ==
    \/ RxStep(CbLines)
    \/ \E fails \in BOOLEAN : add_ant_sel_cb(fails)
    \/ add_rssi_cb
    \/ connectionMade
    \/ \E s \in Range(CliIds) : connectionLost(s)

SpecCb == InitCb /\ [][NextCb]_vars

\* ----------------- specification SpecParse: the two parsers on arbitrary lines
OneCounters == <<"1", "1", "1", "1", "1", "1", "1", "1", "1">>
TxAntLine(ant, val) == << <<"0">>, <<"TX_ANT">>, <<ant>>, val >>
TxPktLine(c) == << <<"0">>, <<"PKT">>, c >>
TxLatency == <<"10", "0", "1", "2", "3">>
TxOnes == <<"1", "1", "1", "1", "1", "1", "1">>

ParseRxLines ==
    {RxAntLine(F1, "0", AntVal("3", "-60")),
     RxAntLine(F1, "1", <<"3", "-60">>),
     RxAntLine(F1, "0", AntVal("x", "-60")),
     << <<"0">>, <<"RX_ANT">>, F1, <<"0">> >>,
     RxPktLine(OneCounters),
     RxPktLine(<<"1", "2", "3">>),
     << <<"0">>, <<"PKT">> >>,
     << <<"0">>, <<"SESSION">>, <<"1", "1", "8", "12">> >>,
     << <<"0">>, <<"SESSION">>, <<"1", "1", "8">> >>,
     << <<"0">>, <<"FOO">> >>,
     << <<"0">> >>}

ParseTxLines ==
    {TxAntLine("0", TxLatency),
     TxAntLine("0", <<"x">>),
     << <<"0">>, <<"TX_ANT">>, <<"0">> >>,
     TxPktLine(TxOnes),
     TxPktLine(<<"1", "2", "3">>),
     << <<"0">>, <<"PKT">> >>,
     << <<"0">>, <<"LISTEN_UDP">>, <<"5000", "wlan0">> >>,
     << <<"0">>, <<"LISTEN_UDP">>, <<"5000">> >>,
     << <<"0">>, <<"FOO">> >>,
     << <<"0">> >>}

BelowCap(count_all) == \A i \in DOMAIN count_all : count_all[i] < MaxTotal

InitParse ==
    /\ settings \in {s \in SelSettings : s.tx_sel_rssi_delta = 3}
    /\ logger = TRUE
    /\ AggInit
    /\ RxInit
    /\ TxInit
    /\ NoService
    /\ NoTop
    /\ NoCall

NextParse ==
    \/ \E line \in ParseRxLines :
        (IsPkt(line) => BelowCap(rx_count_all)) /\ RXLineReceived(line, {}, {})
    \/ \E line \in ParseTxLines :
        (IsPkt(line) => BelowCap(tx_count_all)) /\ TXLineReceived(line)

SpecParse == InitParse /\ [][NextParse]_vars

\* ------------- specification SpecSvc: one service, its workers and its promises
SvcCfgs ==
    {[type |-> "mavlink", peer |-> p, mirror |-> FALSE, control0 |-> c, tcp |-> t,
      has_rx |-> TRUE, has_tx |-> TRUE] :
        p \in {"listen", "serial"}, c \in BOOLEAN, t \in BOOLEAN}
    \cup {[type |-> "mavlink", peer |-> "bad", mirror |-> FALSE, control0 |-> FALSE, tcp |-> TRUE,
           has_rx |-> TRUE, has_tx |-> TRUE]}
    \cup {[type |-> "tunnel", peer |-> "none", mirror |-> FALSE, control0 |-> c, tcp |-> FALSE,
           has_rx |-> TRUE, has_tx |-> TRUE] : c \in BOOLEAN}
    \cup {[type |-> "udp_proxy", peer |-> "connect", mirror |-> FALSE, control0 |-> c /\ t,
           tcp |-> FALSE, has_rx |-> r, has_tx |-> t] :
              c \in BOOLEAN, r \in BOOLEAN, t \in BOOLEAN}
    \cup {[type |-> "udp_proxy", peer |-> "serial", mirror |-> FALSE, control0 |-> FALSE,
           tcp |-> FALSE, has_rx |-> TRUE, has_tx |-> TRUE]}
    \cup {[type |-> "udp_direct_tx", peer |-> p, mirror |-> m, control0 |-> c, tcp |-> FALSE,
           has_rx |-> FALSE, has_tx |-> TRUE] :
              p \in {"listen", "connect"}, m \in BOOLEAN, c \in BOOLEAN}
    \cup {[type |-> "udp_direct_rx", peer |-> p, mirror |-> FALSE, control0 |-> FALSE,
           tcp |-> FALSE, has_rx |-> TRUE, has_tx |-> FALSE] : p \in {"connect", "listen"}}

SvcTxLines ==
    {<< <<"0">>, <<"LISTEN_UDP">>, <<"5000", "wlan0">> >>,
     << <<"0">>, <<"LISTEN_UDP">>, <<"5001", "wlan1">> >>,
     << <<"0">>, <<"LISTEN_UDP_END">> >>,
     << <<"0">>, <<"LISTEN_UDP_CONTROL">>, <<"6000">> >>,
     << <<"0">>, <<"LISTEN_UDP_CONTROL">>, <<"6001">> >>}

InitSvc ==
    /\ settings \in {s \in SelSettings : s.tx_sel_rssi_delta = 3}
    /\ logger = TRUE
    /\ AggInit
    /\ RxInit
    /\ TxInit
    /\ svc \in SvcCfgs
    /\ b_pc = "idle"
    /\ b_exc = "none"
    /\ sockets = <<>>
    /\ opened = {}
    /\ tx_proc = "none"
    /\ rx_proc = "none"
    /\ ports_df = NoDf
    /\ control_port_df = NoDf
    /\ NoTop
    /\ NoCall

NextSvc ==
    \/ StartService
    \/ \E line \in SvcTxLines : TXOutReceived(line)
    \/ \E rc \in {0, 1} : TXProcessEnded(rc)
    \/ \E rc \in {0, 1} : RXProcessEnded(rc)

SpecSvc == InitSvc /\ [][NextSvc]_vars

\* ===================================================== claims: RX update
\* the last handler was a PKT record that reached update_rx_stats
UpdateCalled ==
    /\ last_call.op = "rx_line"
    /\ IsPkt(last_call.line)
    /\ Len(last_call.line) = 3
    /\ int_tuple(last_call.line[3]).ok
    /\ Len(last_call.line[3]) = 9

\* the folded antenna stats handed to the selector by that update
PreFold == stats_agg_by_freq(last_call.pre.ant)
PreAgg == PreFold.agg
SelectionRan ==
    UpdateCalled /\ PreFold.exc = "none" /\ DOMAIN PreAgg # {} /\ ant_sel_cb_list # <<>>

NicOf(ant_id) == ant_id \div 256
Nics(agg) == {NicOf(a) : a \in DOMAIN agg}
NicRssi(agg, n) == SetMax({agg[a][3] : a \in {b \in DOMAIN agg : NicOf(b) = n}})
NicPkt(agg, n) == SetMax({agg[a][1] : a \in {b \in DOMAIN agg : NicOf(b) = n}})
MaxPkt(agg) == SetMax({NicPkt(agg, n) : n \in Nics(agg)})

\* pkt >= max_pkts - max(abs_delta, max_pkts * rel_num / rel_den), without fractions
AtThreshold(agg, n) ==
    LET m == MaxPkt(agg)
        byAbs == settings.rel_den * (m - settings.tx_sel_counter_abs_delta)
        byRel == settings.rel_den * m - settings.rel_num * m
    IN  settings.rel_den * NicPkt(agg, n) >= Min2(byAbs, byRel)

Candidates(agg) == {n \in Nics(agg) : AtThreshold(agg, n)}
BestRssi(agg) == SetMax({NicRssi(agg, n) : n \in Candidates(agg)})
EventsOf(kind) == {i \in DOMAIN emitted : emitted[i].ev = kind}

\* C1: hysteresis. When selection runs with tx_sel among the candidates and the
\* best candidate's RSSI exceeds that of tx_sel by strictly less than
\* tx_sel_rssi_delta, tx_sel is unchanged and no ant_sel_cb is invoked.
C1_Hysteresis ==
    (/\ SelectionRan
     /\ last_call.pre.tx_sel \in Candidates(PreAgg)
     /\ BestRssi(PreAgg) - NicRssi(PreAgg, last_call.pre.tx_sel) < settings.tx_sel_rssi_delta)
    => (tx_sel = last_call.pre.tx_sel /\ EventsOf("ant_sel_cb") = {})

C1_Witness ==
    /\ SelectionRan
    /\ last_call.pre.tx_sel \in Candidates(PreAgg)
    /\ settings.tx_sel_rssi_delta = 3
    /\ BestRssi(PreAgg) - NicRssi(PreAgg, last_call.pre.tx_sel) = 2
    /\ tx_sel = last_call.pre.tx_sel

\* C2: after every run of select_tx_antenna, tx_sel is its prior value or a
\* member of that update's candidate set.
C2_PostInCandidates ==
    SelectionRan => tx_sel \in Candidates(PreAgg) \cup {last_call.pre.tx_sel}

C2_Witness ==
    /\ SelectionRan
    /\ tx_sel # last_call.pre.tx_sel
    /\ tx_sel \in Candidates(PreAgg)
    /\ Candidates(PreAgg) # Nics(PreAgg)

\* C3: counter-threshold filter. A switch only ever goes to a NIC whose packet
\* count (max over its folded antennas) is at or above
\* max_pkts - max(counter_abs_delta, max_pkts * counter_rel_delta), and the NIC
\* chosen has the highest RSSI among exactly the NICs at or above that threshold;
\* a NIC below the threshold is not switched to whatever its RSSI.
C3_CounterThreshold ==
    (SelectionRan /\ tx_sel # last_call.pre.tx_sel)
    => /\ tx_sel \in Nics(PreAgg)
       /\ AtThreshold(PreAgg, tx_sel)
       /\ \A n \in Nics(PreAgg) :
            AtThreshold(PreAgg, n) => NicRssi(PreAgg, n) <= NicRssi(PreAgg, tx_sel)

C3_Witness ==
    /\ SelectionRan
    /\ tx_sel # last_call.pre.tx_sel
    /\ \E n \in Nics(PreAgg) :
        /\ ~AtThreshold(PreAgg, n)
        /\ NicRssi(PreAgg, n) > NicRssi(PreAgg, tx_sel)

\* C4: ordering inside one RX update. Every ant_sel_cb call precedes the
\* assignment of tx_sel, which precedes every rssi_cb call, and all of them
\* precede the 'rx' records sent to the subscribers; each 'rx' record carries
\* the post-switch tx_sel as tx_ant.
Before(k1, k2) == \A i \in EventsOf(k1), j \in EventsOf(k2) : i < j

C4_Ordering ==
    UpdateCalled =>
        /\ Before("ant_sel_cb", "set_tx_sel")
        /\ Before("ant_sel_cb", "rssi_cb")
        /\ Before("set_tx_sel", "rssi_cb")
        /\ Before("ant_sel_cb", "send")
        /\ Before("set_tx_sel", "send")
        /\ Before("rssi_cb", "send")
        /\ (tx_sel # last_call.pre.tx_sel => EventsOf("set_tx_sel") # {})
        /\ \A i \in EventsOf("send") :
            emitted[i].rec.type = "rx" /\ emitted[i].rec.tx_ant = tx_sel

C4_Witness ==
    /\ UpdateCalled
    /\ tx_sel # last_call.pre.tx_sel
    /\ EventsOf("ant_sel_cb") # {}
    /\ EventsOf("rssi_cb") # {}
    /\ Cardinality(EventsOf("send")) >= 2

\* C5: callback isolation. If an ant_sel_cb raises during a switch, every
\* registered ant_sel_cb is still invoked with the new index and tx_sel becomes
\* the new index; if an rssi_cb raises, every registered rssi_cb is still
\* invoked; in both cases every subscriber still gets the 'rx' record.
Raising(kind) == {i \in EventsOf(kind) : emitted[i].raised}

C5_CallbackIsolation ==
    UpdateCalled =>
        /\ \A i \in Raising("ant_sel_cb") :
            /\ \A cb \in Range(ant_sel_cb_list) :
                \E j \in EventsOf("ant_sel_cb") :
                    emitted[j].cb = cb /\ emitted[j].idx = emitted[i].idx
            /\ tx_sel = emitted[i].idx
            /\ tx_sel # last_call.pre.tx_sel
        /\ \A i \in Raising("rssi_cb") :
            \A cb \in Range(rssi_cb_l) :
                \E j \in EventsOf("rssi_cb") : emitted[j].cb = cb
        /\ (Raising("ant_sel_cb") \cup Raising("rssi_cb") # {} =>
                \A s \in Range(ui_sessions) :
                    \E j \in EventsOf("send") :
                        emitted[j].to = s /\ emitted[j].rec.type = "rx")

C5_Witness ==
    /\ UpdateCalled
    /\ Len(ant_sel_cb_list) >= 2
    /\ Len(rssi_cb_l) >= 2
    /\ \E i \in Raising("ant_sel_cb") : emitted[i].cb = 1
    /\ \E i \in Raising("rssi_cb") : emitted[i].cb = 1
    /\ Len(ui_sessions) >= 2

\* ============================================ claims: parsers and services
Ints(col, n) == Len(col) = n /\ int_tuple(col).ok

\* the record grammar of the RX worker: RX_ANT, PKT and SESSION records
WellFormedRx(line) ==
    /\ Len(line) >= 2
    /\ \/ /\ line[2] = <<"RX_ANT">>
          /\ Len(line) = 5
          /\ Ints(line[3], 3)
          /\ hex_int(line[4]).ok
          /\ Ints(line[5], 7)
       \/ line[2] = <<"PKT">> /\ Len(line) = 3 /\ Ints(line[3], 9)
       \/ line[2] = <<"SESSION">> /\ Len(line) = 3 /\ Ints(line[3], 4)

\* the record grammar of the TX worker
WellFormedTx(line) ==
    /\ Len(line) >= 2
    /\ \/ /\ line[2] = <<"LISTEN_UDP">>
          /\ Len(line) = 3
          /\ Len(line[3]) >= 2
          /\ line[3][1] \in DOMAIN IntOf
       \/ line[2] = <<"LISTEN_UDP_END">> /\ Len(line) = 2
       \/ line[2] = <<"LISTEN_UDP_CONTROL">> /\ Len(line) = 3 /\ Ints(line[3], 1)
       \/ /\ line[2] = <<"TX_ANT">>
          /\ Len(line) = 4
          /\ hex_int(line[3]).ok
          /\ Ints(line[4], 5)
       \/ line[2] = <<"PKT">> /\ Len(line) = 3 /\ Ints(line[3], 7)

MalformedCall(c) ==
    \/ c.op = "rx_line" /\ ~WellFormedRx(c.line)
    \/ c.op = "tx_line" /\ ~WellFormedTx(c.line)

\* C6: bad telemetry is non-fatal for both parsers. Handling a malformed record
\* (unknown command, wrong column count, wrong number of sub-fields, non-integer
\* field) logs exactly one error, raises nothing to the caller, publishes
\* nothing and leaves the antenna maps, the running totals, the session and the
\* collected ports as they were.
C6_BadTelemetryNonFatal ==
    [][ MalformedCall(last_call') =>
          /\ raised' = "none"
          /\ Cardinality({i \in DOMAIN emitted' : emitted'[i].ev = "log_error"}) = 1
          /\ {i \in DOMAIN emitted' : emitted'[i].ev = "send"} = {}
          /\ UNCHANGED <<rx_ant, rx_count_all, rx_session>>
          /\ UNCHANGED <<tx_ports, tx_control_port, tx_ant, tx_count_all>> ]_vars

\* C7: each port-discovery promise (ports, control port) is fulfilled at most
\* once, whatever records the TX worker emits, repeated LISTEN_UDP_END and
\* LISTEN_UDP_CONTROL records and records after the promise was settled included.
\* A promise is fired at most once and is fired exactly when it is fulfilled;
\* a settled promise (fulfilled or cancelled) is never fulfilled again and is
\* never replaced by a new one; the only step that fulfils the ports promise
\* is a LISTEN_UDP_END record read while it was pending, which hands over the
\* port map collected so far, and the only step that fulfils the control-port
\* promise is a LISTEN_UDP_CONTROL record read while it was pending, which
\* hands over the port of that record; the builder leaves its wait for a
\* promise only while that promise was pending.
C7_FulfilledAtMostOnce ==
    /\ [](/\ ports_df.n <= 1
          /\ control_port_df.n <= 1
          /\ (ports_df.st = "called" <=> ports_df.n = 1)
          /\ (control_port_df.st = "called" <=> control_port_df.n = 1))
    /\ [][ /\ (ports_df.st \in {"called", "cancelled"} =>
                 ports_df'.st = ports_df.st /\ ports_df'.n = ports_df.n)
          /\ (control_port_df.st \in {"called", "cancelled"} =>
                 /\ control_port_df'.st = control_port_df.st
                 /\ control_port_df'.n = control_port_df.n
                 /\ control_port_df'.val = control_port_df.val)
          /\ (ports_df'.n # ports_df.n =>
                 /\ ports_df.st = "pending"
                 /\ last_call'.op = "tx_line"
                 /\ last_call'.line[2] = <<"LISTEN_UDP_END">>
                 /\ ports_df'.val = tx_ports)
          /\ (control_port_df'.n # control_port_df.n =>
                 /\ control_port_df.st = "pending"
                 /\ last_call'.op = "tx_line"
                 /\ last_call'.line[2] = <<"LISTEN_UDP_CONTROL">>
                 /\ control_port_df'.val = tx_control_port')
          /\ (b_pc = "wait_ports" /\ b_pc' # "wait_ports" => ports_df.st = "pending")
          /\ (b_pc = "wait_control" /\ b_pc' # "wait_control" =>
                 control_port_df.st = "pending") ]_vars

\* both promises were fulfilled, a second LISTEN_UDP_CONTROL record with another
\* port was read, and the last record was a repeated LISTEN_UDP_END: callback
\* raised AlreadyCalledError and the promises are as the first records left them
C7_Witness ==
    /\ last_call.op = "tx_line"
    /\ last_call.line[2] = <<"LISTEN_UDP_END">>
    /\ raised = "AlreadyCalledError"
    /\ ports_df.n = 1
    /\ control_port_df.n = 1
    /\ control_port_df.val = 6000
    /\ tx_control_port = 6001

\* C8: when the TX worker exits, with any exit code, each of its promises that
\* is still unfulfilled is cancelled and the builder waiting on it fails with
\* that cancellation; a promise already fulfilled keeps its state and value.
C8_ExitCancelsPromises ==
    /\ (tx_proc \in {"exit0", "exit1"} =>
            /\ ports_df.st # "pending"
            /\ control_port_df.st # "pending"
            /\ b_pc \notin {"wait_ports", "wait_control"})
    /\ (last_call.op = "tx_exit" =>
            /\ (last_call.pre.ports_df.st = "pending" => ports_df.st = "cancelled")
            /\ (last_call.pre.control_port_df.st = "pending" =>
                    control_port_df.st = "cancelled")
            /\ (last_call.pre.ports_df.st = "called" => ports_df = last_call.pre.ports_df)
            /\ (last_call.pre.control_port_df.st = "called" =>
                    control_port_df = last_call.pre.control_port_df)
            /\ (last_call.pre.b_pc \in {"wait_ports", "wait_control"} =>
                    b_pc = "failed" /\ b_exc = "CancelledError"))

C8_Witness ==
    /\ last_call.op = "tx_exit"
    /\ last_call.pre.ports_df.st = "called"
    /\ last_call.pre.control_port_df.st = "pending"
    /\ last_call.pre.b_pc = "wait_control"
    /\ ports_df.st = "called"
    /\ control_port_df.st = "cancelled"
    /\ b_pc = "failed"

SocketNames == {"rx", "in", "mavtcp"} \cup Range(TxSockets)
TornDown == b_pc \in {"done", "failed"}

\* C9: restart cleanliness. After the teardown of a service of any type, no
\* socket the service opened (RX proxy, inbound proxy, per-NIC TX proxies,
\* MAVLink TCP listener) is still listening and none of its workers still runs.
C9_RestartCleanliness ==
    TornDown =>
        /\ opened \cap SocketNames = {}
        /\ tx_proc # "running"
        /\ rx_proc # "running"

\* C10: when the service fails before it is fully wired (the TX worker exits
\* while the builder waits for the ports or the control-port promise, or the
\* wiring itself fails), every listener the builder created so far is stopped
\* and neither promise is left pending.
C10_FailureBeforeWired ==
    (b_pc = "failed" /\ b_exc # "ProcessTerminated") =>
        /\ opened \cap SocketNames = {}
        /\ ports_df.st # "pending"
        /\ control_port_df.st # "pending"

\* ------------------------------------------------------------------- init()
\* the bandwidths init_wlans knows an ht_mode for
SupportedBw == {10, 20, 40, 80, 160}

\* type_map
KnownTypes == {"udp_direct_rx", "udp_direct_tx", "mavlink", "tunnel", "udp_proxy"}

\* the workers a builder spawns before its first wait
FirstWorkers(cfg) ==
    CASE cfg.type \in {"mavlink", "tunnel", "udp_direct_tx"} -> {"tx"}
      [] cfg.type = "udp_direct_rx" -> {"rx"}
      [] OTHER -> (IF cfg.has_rx THEN {"rx"} ELSE {}) \cup (IF cfg.has_tx THEN {"tx"} ELSE {})

\* defer.maybeDeferred(type_map[service_type], ...): the builder runs up to its
\* first wait; df is the state of the Deferred that init() puts into dl
builder_start(cfg) ==
    IF ConfigError(cfg) THEN [df |-> "Exception", workers |-> {}]
    ELSE [df |-> IF FirstWorkers(cfg) = {} THEN "ok" ELSE "pending",
          workers |-> FirstWorkers(cfg)]

DfFailed(d) == d \notin {"unstarted", "pending", "ok"}

TNow ==
    [pc |-> top_pc, exc |-> top_exc, df |-> svc_df, workers |-> svc_workers,
     spawned |-> svc_spawned, stats |-> stats_listening, ticker |-> ticker, cmds |-> cmds,
     sleeping |-> sleeping, ev |-> <<>>]

\* gatherResults(dl, consumeErrors=True).addBoth(_cleanup) of init(): the first
\* failed Deferred fails it, _cleanup stops the stats listener and the ticker
TopGather(t) ==
    LET failed == {i \in DOMAIN t.df : DfFailed(t.df[i])} IN
    IF failed # {}
    THEN [t EXCEPT !.pc = "failed",
                   !.exc = [svc |-> SetMin(failed), exc |-> t.df[SetMin(failed)]],
                   !.stats = FALSE, !.ticker = FALSE]
    ELSE IF \A i \in DOMAIN t.df : t.df[i] = "ok"
    THEN [t EXCEPT !.pc = "done", !.stats = FALSE, !.ticker = FALSE]
    ELSE [t EXCEPT !.pc = "gather"]

\* init() after init_wlans: the aggregator and its ticker, the stats listener,
\* then the builders in list order; an unknown service type raises KeyError
\* out of init() at its place in the list
ServicesStarted(t) ==
    LET n == Len(services)
        unknown == {i \in 1..n : services[i].type \notin KnownTypes}
        k == IF unknown = {} THEN n ELSE SetMin(unknown) - 1
        t1 == [t EXCEPT
                 !.df = [i \in 1..n |->
                            IF i <= k THEN builder_start(services[i]).df ELSE "unstarted"],
                 !.workers = [i \in 1..n |->
                            IF i <= k THEN builder_start(services[i]).workers ELSE {}],
                 !.spawned = [i \in 1..n |->
                            IF i <= k THEN builder_start(services[i]).workers ELSE {}],
                 !.stats = top_cfg.stats_port,
                 !.ticker = TRUE,
                 !.ev = InitEvents]
    IN  IF unknown # {}
        THEN [t1 EXCEPT !.pc = "failed", !.exc = [svc |-> k + 1, exc |-> "KeyError"]]
        ELSE TopGather(t1)

TopSet(t) ==
    /\ top_pc' = t.pc
    /\ top_exc' = t.exc
    /\ svc_df' = t.df
    /\ svc_workers' = t.workers
    /\ svc_spawned' = t.spawned
    /\ stats_listening' = t.stats
    /\ ticker' = t.ticker
    /\ cmds' = t.cmds
    /\ sleeping' = t.sleeping
    /\ emitted' = t.ev

TopFrame ==
    /\ raised' = "none"
    /\ UNCHANGED <<aggVars, rxVars, txVars, svcVars, connected, top_cfg, services>>

NicCommandsUpFirst(w) ==
    << [cmd |-> "up", wlan |-> w], [cmd |-> "down", wlan |-> w],
       [cmd |-> "monitor", wlan |-> w], [cmd |-> "channel", wlan |-> w] >>

\* init_wlans, the body of 'for wlan in wlans': the call_and_check_rc calls for
\* NIC number w; nm_status is what 'nmcli device show' reports for it
NicCommands(w) ==
    (IF top_cfg.set_nm
     THEN << [cmd |-> "nm_show", wlan |-> w] >>
          \o (IF top_cfg.nm_status[w] = "unmanaged" THEN <<>>
              ELSE << [cmd |-> "nm_unmanage", wlan |-> w] >>)
     ELSE <<>>)
    \o << [cmd |-> "down", wlan |-> w], [cmd |-> "monitor", wlan |-> w],
          [cmd |-> "up", wlan |-> w], [cmd |-> "channel", wlan |-> w] >>
    \o (IF top_cfg.txpower THEN << [cmd |-> "txpower", wlan |-> w] >> ELSE <<>>)

\* init_wlans in the primary role: 'iw reg set', then the NICs in list order
WlanCommands ==
    << [cmd |-> "reg", wlan |-> 0] >> \o Flatten([w \in DOMAIN Wlans |-> NicCommands(w)])

\* init(): the bandwidth check of init_wlans; in the secondary role init_wlans
\* returns at once, in the primary role it issues 'iw reg set' and waits
init_start ==
    /\ top_pc = "idle"
    /\ LET max_bw == SetMax({services[i].bandwidth : i \in DOMAIN services}) IN
       IF max_bw \notin SupportedBw
       THEN TopSet([TNow EXCEPT !.pc = "failed", !.exc = [svc |-> 0, exc |-> "Exception"]])
       ELSE IF top_cfg.primary
       THEN TopSet([TNow EXCEPT !.pc = "wlans", !.cmds = <<WlanCommands[1]>>])
       ELSE TopSet(ServicesStarted(TNow))
    /\ last_call' = Call("init", <<>>, NoPre)
    /\ TopFrame

\* except ExecError as v: log.msg(v.stdout, isError=1) if the command printed on
\* stdout, log.msg(v.stderr, isError=1) if it printed on stderr, then raise
ExecErrorLog(out, err) ==
    (IF out THEN <<[ev |-> "log_error", id |-> "stdout"]>> ELSE <<>>)
    \o (IF err THEN <<[ev |-> "log_error", id |-> "stderr"]>> ELSE <<>>)

wlan_cmd_failure_ignored(ok, out, err) ==
    /\ top_pc = "wlans"
    /\ ~sleeping
    /\ IF ~ok
       THEN TopSet([ServicesStarted(TNow) EXCEPT
                      !.pc = "failed", !.exc = [svc |-> 0, exc |-> "ExecError"],
                      !.ev = ExecErrorLog(out, err) \o @])
       ELSE IF cmds[Len(cmds)].cmd = "nm_unmanage"
       THEN TopSet([TNow EXCEPT !.sleeping = TRUE])
       ELSE IF Len(cmds) < Len(WlanCommands)
       THEN TopSet([TNow EXCEPT !.cmds = Append(cmds, WlanCommands[Len(cmds) + 1])])
       ELSE TopSet(ServicesStarted(TNow))
    /\ last_call' = Call("init_wlans", <<>>, NoPre)
    /\ TopFrame

\* init_wlans resumed by call_and_check_rc: ok tells whether the running command
\* exited with 0. After 'nmcli device set <wlan> managed no' init_wlans yields
\* df_sleep(1) and no command runs; otherwise the next command is issued, after
\* the last one init() goes on; a non-zero exit raises ExecError, whose handler
\* logs what the command printed (out / err tell whether it printed on stdout /
\* stderr) and raises it again out of init_wlans and init
wlan_cmd_done(ok, out, err) ==
    /\ top_pc = "wlans"
    /\ ~sleeping
    /\ IF ~ok
       THEN TopSet([TNow EXCEPT !.pc = "failed", !.exc = [svc |-> 0, exc |-> "ExecError"],
                                !.ev = ExecErrorLog(out, err)])
       ELSE IF cmds[Len(cmds)].cmd = "nm_unmanage"
       THEN TopSet([TNow EXCEPT !.sleeping = TRUE])
       ELSE IF Len(cmds) < Len(WlanCommands)
       THEN TopSet([TNow EXCEPT !.cmds = Append(cmds, WlanCommands[Len(cmds) + 1])])
       ELSE TopSet(ServicesStarted(TNow))
    /\ last_call' = Call("init_wlans", <<>>, NoPre)
    /\ TopFrame

\* the timer of df_sleep(1) fires: init_wlans goes on with 'ip link set down'
df_sleep_done ==
    /\ top_pc = "wlans"
    /\ sleeping
    /\ TopSet([TNow EXCEPT !.sleeping = FALSE,
                           !.cmds = Append(cmds, WlanCommands[Len(cmds) + 1])])
    /\ last_call' = Call("df_sleep", <<>>, NoPre)
    /\ TopFrame

\* what the exit of worker w with code rc makes of the builder's pending
\* Deferred while no telemetry has arrived: a TX exit cancels tx_ports_df and
\* control_port_df, the builder waits on control_port_df only when
\* cfg.control_port is 0, a udp_direct worker's own Deferred is the builder's
\* result
BuilderOnExit(cfg, w, rc) ==
    LET byCode == IF rc = 0 THEN "ok" ELSE "ProcessTerminated" IN
    CASE cfg.type \in {"mavlink", "tunnel"} -> "CancelledError"
      [] cfg.type = "udp_proxy" ->
            IF w = "tx" THEN "CancelledError"
            ELSE IF cfg.has_tx THEN "pending" ELSE byCode
      [] cfg.type = "udp_direct_tx" ->
            IF cfg.control_port = 0 THEN "CancelledError" ELSE byCode
      [] OTHER -> byCode

\* processEnded of a worker of service i, seen from init()
ServiceWorkerEnded(i, w, rc) ==
    /\ i \in DOMAIN svc_workers
    /\ w \in svc_workers[i]
    /\ LET df == IF svc_df[i] = "pending"
                 THEN [svc_df EXCEPT ![i] = BuilderOnExit(services[i], w, rc)]
                 ELSE svc_df
           t == [TNow EXCEPT !.df = df, !.workers = [svc_workers EXCEPT ![i] = @ \ {w}]]
       IN  TopSet(IF top_pc = "gather" THEN TopGather(t) ELSE t)
    /\ last_call' = Call("worker_exit", <<>>, NoPre)
    /\ TopFrame

\* cancel() on the Deferred returned by RXProtocol.start(), which is what
\* init_udp_direct_rx returns: self.df was made by defer.Deferred() without a
\* canceller, so it fails with CancelledError and nothing is done to the child
CancelStart(i) ==
    /\ i \in DOMAIN services
    /\ services[i].type = "udp_direct_rx"
    /\ svc_df[i] = "pending"
    /\ svc_workers[i] # {}
    /\ LET t == [TNow EXCEPT !.df = [svc_df EXCEPT ![i] = "CancelledError"]]
       IN  TopSet(IF top_pc = "gather" THEN TopGather(t) ELSE t)
    /\ last_call' = Call("cancel", <<>>, NoPre)
    /\ TopFrame

\* ---------------- specification SpecTop: init() over the services of a profile
TopCfgs ==
    {[type |-> "mavlink", peer |-> p, mirror |-> FALSE, bandwidth |-> 20,
      has_rx |-> TRUE, has_tx |-> TRUE, control_port |-> 0] : p \in {"listen", "bad"}}
    \cup {[type |-> "udp_direct_rx", peer |-> "connect", mirror |-> FALSE, bandwidth |-> b,
           has_rx |-> TRUE, has_tx |-> FALSE, control_port |-> 0] : b \in {20, 30, 40}}
    \cup {[type |-> "udp_direct_tx", peer |-> "listen", mirror |-> m, bandwidth |-> 20,
           has_rx |-> FALSE, has_tx |-> TRUE, control_port |-> IF m THEN 7003 ELSE 0] :
              m \in BOOLEAN}
    \cup {[type |-> "udp_proxy", peer |-> "connect", mirror |-> FALSE, bandwidth |-> 20,
           has_rx |-> TRUE, has_tx |-> TRUE, control_port |-> 0],
          [type |-> "video", peer |-> "connect", mirror |-> FALSE, bandwidth |-> 20,
           has_rx |-> TRUE, has_tx |-> FALSE, control_port |-> 0]}

InitTop ==
    /\ settings \in {s \in SelSettings : s.tx_sel_rssi_delta = 3}
    /\ logger = TRUE
    /\ AggInit
    /\ RxInit
    /\ TxInit
    /\ NoService
    /\ connected = {}
    /\ top_cfg \in {[primary |-> p, stats_port |-> TRUE, set_nm |-> FALSE,
                      nm_status |-> <<"managed", "managed">>, txpower |-> FALSE] :
                        p \in BOOLEAN}
    /\ cmds = <<>>
    /\ sleeping = FALSE
    /\ services \in [1..MaxServices -> TopCfgs]
    /\ top_pc = "idle"
    /\ top_exc = [svc |-> 0, exc |-> "none"]
    /\ svc_df = [i \in 1..MaxServices |-> "unstarted"]
    /\ svc_workers = [i \in 1..MaxServices |-> {}]
    /\ svc_spawned = [i \in 1..MaxServices |-> {}]
    /\ stats_listening = FALSE
    /\ ticker = FALSE
    /\ NoCallYet

NextTop ==
    \/ init_start
    \/ \E ok \in BOOLEAN, out \in BOOLEAN, err \in BOOLEAN : wlan_cmd_done(ok, out, err)
    \/ \E i \in 1..MaxServices, w \in {"tx", "rx"}, rc \in {0, 1} : ServiceWorkerEnded(i, w, rc)
    \/ \E i \in 1..MaxServices : CancelStart(i)

SpecTop == InitTop /\ [][NextTop]_vars

\* the steps init() takes by itself are fair; the exit of a child process and
\* the cancellation are up to the environment
SpecTopLive == SpecTop /\ WF_vars(init_start)

\* ------- specification SpecWlans: init() over the settings read by init_wlans
WlanSvcCfgs ==
    {[type |-> "udp_direct_rx", peer |-> "connect", mirror |-> FALSE, bandwidth |-> b,
      has_rx |-> TRUE, has_tx |-> FALSE, control_port |-> 0] : b \in {20, 40}}

InitWlans ==
    /\ settings \in {s \in SelSettings : s.tx_sel_rssi_delta = 3}
    /\ logger = TRUE
    /\ AggInit
    /\ RxInit
    /\ TxInit
    /\ NoService
    /\ connected = {}
    /\ top_cfg \in {[primary |-> p, stats_port |-> TRUE, set_nm |-> n, nm_status |-> st,
                      txpower |-> x] :
                        p \in BOOLEAN, n \in BOOLEAN, x \in BOOLEAN,
                        st \in [DOMAIN Wlans -> {"managed", "unmanaged"}]}
    /\ cmds = <<>>
    /\ sleeping = FALSE
    /\ services \in [1..MaxServices -> WlanSvcCfgs]
    /\ top_pc = "idle"
    /\ top_exc = [svc |-> 0, exc |-> "none"]
    /\ svc_df = [i \in 1..MaxServices |-> "unstarted"]
    /\ svc_workers = [i \in 1..MaxServices |-> {}]
    /\ svc_spawned = [i \in 1..MaxServices |-> {}]
    /\ stats_listening = FALSE
    /\ ticker = FALSE
    /\ NoCallYet

NextWlans == NextTop \/ df_sleep_done

SpecWlans == InitWlans /\ [][NextWlans]_vars

\* ======================================================= claims: init()
\* C11: first-failure semantics of init(). When one of several services fails,
\* that failure is the reported cause, the stats listener and the temperature
\* ticker are stopped, and every other service is cancelled: none of them is
\* left pending with workers running.
C11_FirstFailureCancelsSiblings ==
    (top_pc = "failed" /\ top_exc.svc \in DOMAIN svc_df /\ top_exc.exc # "KeyError") =>
        /\ DfFailed(svc_df[top_exc.svc])
        /\ ~stats_listening
        /\ ~ticker
        /\ \A j \in DOMAIN svc_df : svc_df[j] # "pending" /\ svc_workers[j] = {}

\* C12: a worker exit aborts the enclosing service. Once a worker of the
\* service has exited, with any exit code, the service is torn down: it does
\* not keep running with the other worker.
C12_WorkerExitAbortsService ==
    (tx_proc \in {"exit0", "exit1"} \/ rx_proc \in {"exit0", "exit1"}) => TornDown

\* a service of the profile whose configuration is in error: unknown service
\* type, unsupported bandwidth, peer scheme not allowed for the type,
\* udp_direct_tx without mirror on several NICs
HasConfigError ==
    \E i \in DOMAIN services :
        \/ services[i].type \notin KnownTypes
        \/ services[i].bandwidth \notin SupportedBw
        \/ ConfigError(services[i])

\* C13: a configuration error in any service, whatever its position in the
\* service list, is fatal before any worker of any service is spawned.
C13_ConfigErrorBeforeAnyWorker ==
    HasConfigError => \A i \in DOMAIN svc_spawned : svc_spawned[i] = {}

\* ------ specification SpecSub: subscribers of the stats stream and both parsers
TxZeros == <<"0", "0", "0", "0", "0", "0", "0">>
TwoCounters == <<"2", "0", "1", "1", "0", "0", "1", "0", "2">>

SubRxLines ==
    {RxAntLine(F1, "0", AntVal("3", "-60")),
     RxAntLine(F2, "0", AntVal("0", "-60")),
     RxPktLine(OneCounters),
     RxPktLine(TwoCounters),
     RxPktLine(ZeroCounters),
     << <<"0">>, <<"SESSION">>, <<"1", "1", "8", "12">> >>,
     << <<"0">>, <<"SESSION">>, <<"2", "0", "4", "8">> >>}

SubTxLines ==
    {TxAntLine("0", TxLatency),
     TxPktLine(TxOnes),
     TxPktLine(TxZeros)}

InitSub ==
    /\ settings \in {s \in SelSettings : s.tx_sel_rssi_delta = 3}
    /\ logger \in BOOLEAN
    /\ AggInit
    /\ RxInit
    /\ TxInit
    /\ NoService
    /\ NoTop
    /\ NoCall

NextSub ==
    \/ \E line \in SubRxLines :
        (IsPkt(line) => BelowCap(rx_count_all)) /\ RXLineReceived(line, {}, {})
    \/ \E line \in SubTxLines :
        (IsPkt(line) => BelowCap(tx_count_all)) /\ TXLineReceived(line)
    \/ connectionMade
    \/ \E s \in Range(CliIds) : connectionLost(s)

SpecSub == InitSub /\ [][NextSub]_vars

\* =================================================== claims: the stats stream
\* the last step handled a PKT line with the right number of integer fields
RxPktCall == last_call.op = "rx_line" /\ IsPkt(last_call.line) /\ WellFormedRx(last_call.line)
TxPktCall == last_call.op = "tx_line" /\ IsPkt(last_call.line) /\ WellFormedTx(last_call.line)

\* the 'rx' / 'tx' records the last step sent to subscriber s, in order
StatsSentTo(s) ==
    SelectSeq(emitted, LAMBDA e : e.ev = "send" /\ e.to = s /\ e.rec.type \in {"rx", "tx"})

\* C14: every PKT record read from a worker yields exactly one 'rx' (resp.
\* 'tx') record for each subscriber, carrying that PKT's counters; steps that
\* read no PKT record deliver no 'rx' / 'tx' record. Hence each subscriber sees
\* the PKT records in read order without duplication or omission.
C14_OneRecordPerPkt ==
    \A s \in Range(ui_sessions) :
        LET sent == StatsSentTo(s) IN
        IF RxPktCall
        THEN LET d == RxCounters(int_tuple(last_call.line[3]).v) IN
             /\ Len(sent) = 1
             /\ sent[1].rec.type = "rx"
             /\ \A k \in DOMAIN sent[1].rec.packets :
                    sent[1].rec.packets[k][1] = RxStats(d, d)[k][1]
        ELSE IF TxPktCall
        THEN LET d == int_tuple(last_call.line[3]).v IN
             /\ Len(sent) = 1
             /\ sent[1].rec.type = "tx"
             /\ \A k \in DOMAIN sent[1].rec.packets :
                    sent[1].rec.packets[k][1] = TxStats(d, d)[k][1]
        ELSE sent = <<>>

\* the records the last step sent to subscribers
Sends == {emitted[i] : i \in {j \in DOMAIN emitted : emitted[j].ev = "send"}}

\* C15: the first frame on an accepted stats connection is the cli_title
\* record. Accepting a connection sends exactly that one frame to it and only
\* then subscribes it; every other step sends records only to sessions that
\* are subscribed, so nothing precedes the title and nothing produced before
\* the accept is sent on the connection.
C15_TitleFirst ==
    IF last_call.op = "connectionMade"
    THEN /\ ui_sessions # <<>>
         /\ emitted = <<[ev |-> "send", to |-> ui_sessions[Len(ui_sessions)],
                         rec |-> [type |-> "cli_title"]]>>
    ELSE \A e \in Sends : e.rec.type # "cli_title" /\ e.to \in Range(ui_sessions)

\* a connection is accepted after PKT records were already published
C15_Witness ==
    /\ last_call.op = "connectionMade"
    /\ rx_count_all # <<>>
    /\ tx_count_all # <<>>
    /\ Len(ui_sessions) = 2

\* C16: ui_sessions holds exactly the connected CLI sessions, each once, plus
\* the log writer when one was given; the log writer is never removed and no
\* record is sent to a session that is not connected.
C16_SubscriberSet ==
    /\ Range(ui_sessions) = connected \cup (IF logger THEN {"log"} ELSE {})
    /\ Len(ui_sessions) = Cardinality(Range(ui_sessions))
    /\ \A e \in Sends : e.to \in connected \cup {"log"}

\* a session has disconnected and the log writer is still subscribed
C16_Witness ==
    /\ last_call.op = "connectionLost"
    /\ ui_sessions = <<"log">>
    /\ connected = {}

\* the running total after a PKT with counters d, given the total before it
TotalAfter(pre, d) == [i \in DOMAIN d |-> d[i] + (IF pre = <<>> THEN 0 ELSE pre[i])]

\* C17: for both parsers the total kept and published after a PKT record is the
\* total before it plus the record's counters, field by field (so it is the
\* sum of the deltas read so far and never decreases), and the published delta
\* is the record's own value; this holds after all-zero PKT records too.
C17_MonotonicTotals ==
    /\ RxPktCall =>
         LET d == RxCounters(int_tuple(last_call.line[3]).v)
             t == TotalAfter(last_call.pre.count_all, d)
         IN  /\ rx_count_all = t
             /\ \A e \in Sends : e.rec.type = "rx" => e.rec.packets = RxStats(d, t)
    /\ TxPktCall =>
         LET d == int_tuple(last_call.line[3]).v
             t == TotalAfter(last_call.pre.count_all, d)
         IN  /\ tx_count_all = t
             /\ \A e \in Sends : e.rec.type = "tx" => e.rec.packets = TxStats(d, t)

\* an RX record is published for a PKT that follows an all-zero PKT
C17_Witness ==
    /\ RxPktCall
    /\ last_call.pre.count_all = RxCounters(int_tuple(ZeroCounters).v)
    /\ last_call.line = RxPktLine(TwoCounters)
    /\ \E e \in Sends : e.rec.type = "rx"

\* ============================================== claims: the fold by frequency
\* the antenna stats of the update: well formed, not empty, every entry with packets
PositiveAntStats(A) ==
    /\ DOMAIN A # {}
    /\ FoldWellFormed(A)
    /\ \A k \in DOMAIN A : A[k][1] > 0

\* C18: fold conservation. For an RX update whose ant_stats is not empty and
\* has positive packet counts, the folded packet counts sum to the sum of the
\* input packet counts, and each folded rssi_avg is the floor of the
\* packet-weighted mean of the antenna's input rssi_avg values, hence between
\* their minimum and maximum.
C18_FoldConservation ==
    (UpdateCalled /\ PositiveAntStats(last_call.pre.ant)) =>
        LET A == last_call.pre.ant
            f == stats_agg_by_freq(A)
            pktOf == [k \in DOMAIN A |-> A[k][1]]
        IN  /\ f.exc = "none"
            /\ SumOver(DOMAIN f.agg, [a \in DOMAIN f.agg |-> f.agg[a][1]])
                 = SumOver(DOMAIN A, pktOf)
            /\ \A a \in DOMAIN f.agg :
                 LET E == {k \in DOMAIN A : k[2] = a}
                     n == SumOver(E, [k \in E |-> A[k][1]])
                     w == SumOver(E, [k \in E |-> A[k][3] * A[k][1]])
                     avg == f.agg[a][3]
                 IN  /\ avg >= SetMin({A[k][3] : k \in E})
                     /\ avg <= SetMax({A[k][3] : k \in E})
                     /\ avg * n <= w
                     /\ w < (avg + 1) * n

\* an antenna heard on two frequencies: 3 packets at -60 dBm and 1 at -55 dBm
\* fold to 4 packets at floor(-58.75) = -59 dBm
C18_Witness ==
    /\ UpdateCalled
    /\ PositiveAntStats(last_call.pre.ant)
    /\ <<int_tuple(F1).v, 0>> \in DOMAIN last_call.pre.ant
    /\ <<int_tuple(F2).v, 0>> \in DOMAIN last_call.pre.ant
    /\ PreAgg[0][1] = 4
    /\ PreAgg[0][3] = -59
    /\ raised = "none"

\* C19: when the packet counts of an antenna sum to 0 over its frequency
\* entries, the fold drops the antenna and the RX update completes normally:
\* nothing is raised and the 'rx' record is published.
C19_ZeroPktAntennaDropped ==
    (/\ UpdateCalled
     /\ FoldWellFormed(last_call.pre.ant)
     /\ \E k \in DOMAIN last_call.pre.ant :
            FoldAcc(last_call.pre.ant, k[2])[1] = 0) =>
        /\ raised = "none"
        /\ \E e \in Sends : e.rec.type = "rx"

\* ------- specification SpecRssi: the rssi callbacks of update_rx_stats
DecErrCounters == <<"1", "0", "1", "0", "0", "0", "0", "0", "0">>
LostCounters == <<"1", "0", "0", "0", "0", "1", "0", "0", "0">>
BigCounters == <<"70000", "0", "40000", "0", "70000", "0", "40000", "0", "0">>

RssiLines ==
    {RxAntLine(F1, "0", AntVal("3", "-60")),
     RxPktLine(ZeroCounters),
     RxPktLine(DecErrCounters),
     RxPktLine(LostCounters),
     RxPktLine(BigCounters),
     RxPktLine(OneCounters)}

InitRssi ==
    /\ settings \in {[s EXCEPT !.mavlink_err_rate = r] :
                        s \in {t \in SelSettings : t.tx_sel_rssi_delta = 3}, r \in BOOLEAN}
    /\ logger = FALSE
    /\ AggInit
    /\ RxInit
    /\ TxInit
    /\ NoService
    /\ NoTop
    /\ NoCall

NextRssi ==
    \/ \E line \in RssiLines :
        /\ IsPkt(line) => BelowCap(rx_count_all)
        /\ \E fr \in FailChoices(line, rssi_cb_l) : RXLineReceived(line, {}, fr)
    \/ add_rssi_cb

SpecRssi == InitRssi /\ [][NextRssi]_vars

\* ================================================= claims: the rssi callbacks
\* the rssi_cb calls of the last step, in order
RssiCalls == SelectSeq(emitted, LAMBDA e : e.ev = "rssi_cb")

\* C20: the flags passed to every rssi_cb are LINK_LOST exactly when the folded
\* antenna list of the update is empty, even with positive dec_err / bad
\* deltas; otherwise LINK_JAMMED exactly when dec_err.delta + bad.delta > 0;
\* otherwise 0. The two flags are never set together and the jammed test reads
\* the delta column whatever mavlink_err_rate is.
C20_LinkFlags ==
    (UpdateCalled /\ PreFold.exc = "none") =>
        LET d == RxCounters(int_tuple(last_call.line[3]).v)
            expected == IF DOMAIN PreAgg = {} THEN LINK_LOST
                        ELSE IF d[6] + d[7] > 0 THEN LINK_JAMMED
                        ELSE 0
        IN  /\ Len(RssiCalls) = Len(rssi_cb_l)
            /\ \A i \in DOMAIN RssiCalls :
                 /\ RssiCalls[i].args.flags = expected
                 /\ RssiCalls[i].args.flags \in {0, LINK_LOST, LINK_JAMMED}

\* an update with antennas whose PKT has zero deltas after earlier decode
\* errors, with the totals column selected for the error counters: flags = 0
C20_Witness ==
    /\ UpdateCalled
    /\ ~settings.mavlink_err_rate
    /\ last_call.line = RxPktLine(ZeroCounters)
    /\ last_call.pre.ant # <<>>
    /\ last_call.pre.count_all # <<>>
    /\ RssiCalls # <<>>
    /\ RssiCalls[1].args.flags = 0
    /\ RssiCalls[1].args.rx_errors > 0

\* C21: injection saturation. The values handed to each rssi_cb satisfy
\* rx_errors <= 65535, rx_fec <= 65535 and 0 <= mav_rssi <= 255; mav_rssi is
\* the largest folded rssi_avg, or -128 without antennas, modulo 256;
\* rx_errors = dec_err + bad + lost and rx_fec = fec_rec are read from the
\* delta column when mavlink_err_rate is set and from the total column
\* otherwise, capped at 65535.
C21_InjectionSaturation ==
    (UpdateCalled /\ PreFold.exc = "none") =>
        LET d == RxCounters(int_tuple(last_call.line[3]).v)
            col(k) == IF settings.mavlink_err_rate THEN d[k] ELSE rx_count_all[k]
            errs == col(6) + col(7) + col(5)
            fec == col(4)
            rssi == IF DOMAIN PreAgg = {} THEN -128
                    ELSE SetMax({PreAgg[a][3] : a \in DOMAIN PreAgg})
        IN  \A i \in DOMAIN RssiCalls :
                LET a == RssiCalls[i].args IN
                /\ a.rx_errors = (IF errs > 65535 THEN 65535 ELSE errs)
                /\ a.rx_fec = (IF fec > 65535 THEN 65535 ELSE fec)
                /\ a.mav_rssi = rssi % 256
                /\ a.rx_errors <= 65535
                /\ a.rx_fec <= 65535
                /\ a.mav_rssi >= 0
                /\ a.mav_rssi <= 255

\* a PKT whose error and FEC counters exceed 65535, with an antenna at -60 dBm
C21_Witness ==
    /\ UpdateCalled
    /\ last_call.line = RxPktLine(BigCounters)
    /\ RssiCalls # <<>>
    /\ RssiCalls[1].args.rx_errors = 65535
    /\ RssiCalls[1].args.rx_fec = 65535
    /\ RssiCalls[1].args.mav_rssi = 196

\* ============================================= claims: NIC initialisation
\* the place of a per-NIC command in the sequence of its NIC
CmdRank ==
    [c \in {"nm_show", "nm_unmanage", "down", "monitor", "up", "channel", "txpower"} |->
        CASE c = "nm_show" -> 1 [] c = "nm_unmanage" -> 2 [] c = "down" -> 3
          [] c = "monitor" -> 4 [] c = "up" -> 5 [] c = "channel" -> 6 [] OTHER -> 7]

\* the command names issued for NIC w so far, in order
CmdsOf(w) == SelectSeq(cmds, LAMBDA c : c.wlan = w)

\* the commands NIC w gets, by name: the optional ones only when configured / needed
NicNeeds(w) ==
    {"down", "monitor", "up", "channel"}
    \cup (IF top_cfg.set_nm THEN {"nm_show"} ELSE {})
    \cup (IF top_cfg.set_nm /\ top_cfg.nm_status[w] # "unmanaged" THEN {"nm_unmanage"} ELSE {})
    \cup (IF top_cfg.txpower THEN {"txpower"} ELSE {})

\* C22: NIC initialisation order. In the secondary role no command is issued.
\* In the primary role 'iw reg set' is the first command and is issued once;
\* the NICs are handled in list order, one NIC's commands being complete
\* before the next NIC's begin; within a NIC the commands follow the order
\* [unmanaged] -> down -> monitor -> up -> channel -> [txpower]; a command is
\* issued only while init_wlans runs, i.e. after the previous one succeeded,
\* and services are started only after the last command.
C22_NicInitOrder ==
    /\ ~top_cfg.primary => cmds = <<>>
    /\ cmds # <<>> =>
         /\ cmds[1].cmd = "reg"
         /\ \A i \in 2..Len(cmds) : cmds[i].cmd # "reg" /\ cmds[i].wlan \in DOMAIN Wlans
    /\ \A i, j \in 2..Len(cmds) :
         i < j =>
            /\ cmds[i].wlan <= cmds[j].wlan
            /\ cmds[i].wlan = cmds[j].wlan => CmdRank[cmds[i].cmd] < CmdRank[cmds[j].cmd]
    /\ \A i \in 2..Len(cmds) : cmds[i].cmd \in NicNeeds(cmds[i].wlan)
    /\ \A i \in 2..Len(cmds) :
         \A w \in 1..(cmds[i].wlan - 1) :
            {CmdsOf(w)[k].cmd : k \in DOMAIN CmdsOf(w)} = NicNeeds(w)
    /\ (top_cfg.primary /\ top_pc \in {"gather", "done"}) =>
         \A w \in DOMAIN Wlans : {CmdsOf(w)[k].cmd : k \in DOMAIN CmdsOf(w)} = NicNeeds(w)

\* primary role with NetworkManager handling and txpower configured: both
\* NICs were initialised, the first needed to be switched to unmanaged
C22_Witness ==
    /\ top_cfg.primary
    /\ top_cfg.set_nm
    /\ top_cfg.txpower
    /\ top_cfg.nm_status = <<"managed", "unmanaged">>
    /\ top_pc = "gather"
    /\ Len(cmds) = 14

\* init() has failed with the ExecError of a NIC-initialisation command
NicInitFailed == top_exc.exc = "ExecError"

\* C23: a non-zero exit of a NIC-initialisation command is fatal. init() ends
\* with that failure; no aggregator (and so no ticker), no stats listener and
\* no worker process has been created, no service builder was called, and
\* from then on no further command is issued for any NIC and nothing is
\* started. All the failing step writes is the error log of what the command
\* printed (stdout, then stderr); the init record of the aggregator is not
\* written.
C23_NicInitErrorFatal ==
    /\ [](NicInitFailed =>
            /\ top_pc = "failed"
            /\ top_exc.svc = 0
            /\ \E out \in BOOLEAN, err \in BOOLEAN : emitted = ExecErrorLog(out, err)
            /\ ~ticker
            /\ ~stats_listening
            /\ Len(cmds) <= Len(WlanCommands)
            /\ \A i \in DOMAIN svc_df :
                 svc_df[i] = "unstarted" /\ svc_spawned[i] = {} /\ svc_workers[i] = {})
    /\ [][NicInitFailed => UNCHANGED topVars]_vars

\* 'iw dev wlan0 set monitor' has failed after printing on stderr: three
\* commands were issued and the message was logged as an error
C23_Witness ==
    /\ NicInitFailed
    /\ Len(cmds) = 3
    /\ cmds[3] = [cmd |-> "monitor", wlan |-> 1]
    /\ emitted = ExecErrorLog(FALSE, TRUE)

\* ================================================== claims: SESSION records
\* the last step handled a SESSION line with four integer fields
SessionCall ==
    /\ last_call.op = "rx_line"
    /\ Len(last_call.line) = 3
    /\ last_call.line[2] = <<"SESSION">>
    /\ Ints(last_call.line[3], 4)

\* the session a SESSION line describes: epoch:fec_type:fec_k:fec_n
SessionOf(line) ==
    LET p == int_tuple(line[3]).v IN
    [fec_type |-> IF p[2] = 1 THEN "VDM_RS" ELSE "Unknown",
     fec_k |-> p[3], fec_n |-> p[4], epoch |-> p[1]]

NewSessionSends == {e \in Sends : e.rec.type = "new_session"}

\* C24 as stated: every SESSION record replaces the parser's session, a
\* 'new_session' record is delivered to every subscriber (each connected CLI
\* session and the log), and 'rx' records carry the current session.
C24_NewSessionToAllSubscribers ==
    /\ SessionCall =>
         /\ rx_session = SessionOf(last_call.line)
         /\ \A s \in Range(ui_sessions) : \E e \in NewSessionSends : e.to = s
    /\ \A e \in Sends : e.rec.type = "rx" => e.rec.session = rx_session

\* what process_new_session does with a SESSION record: the parser's session
\* is replaced; one 'new_session' record with the new session is written to
\* the log when the aggregator has one, and to no CLI session; every 'rx'
\* record published afterwards carries the parser's current session.
C24_NewSessionToLog ==
    /\ SessionCall =>
         /\ rx_session = SessionOf(last_call.line)
         /\ raised = "none"
         /\ emitted = IF logger
                      THEN <<[ev |-> "send", to |-> "log",
                              rec |-> [type |-> "new_session", id |-> RX_ID,
                                       fec_type |-> rx_session.fec_type,
                                       fec_k |-> rx_session.fec_k,
                                       fec_n |-> rx_session.fec_n,
                                       epoch |-> rx_session.epoch]]>>
                      ELSE <<>>
    /\ ~SessionCall => NewSessionSends = {}
    /\ \A e \in Sends : e.rec.type = "rx" => e.rec.session = rx_session

\* a second SESSION record arrives while a CLI session is connected and the
\* log is present
C24_Witness ==
    /\ SessionCall
    /\ logger
    /\ connected # {}
    /\ rx_count_all # <<>>
    /\ rx_session.epoch = 2
    /\ NewSessionSends # {}

\* ================================================ claims: port discovery
\* C25: the ports promise is fulfilled only by a LISTEN_UDP_END that follows at
\* least one LISTEN_UDP record; its value is the map of the NICs announced so
\* far to their (last announced) ports and is never the empty map.
C25_PortsPromiseValue ==
    ports_df.st = "called" =>
        /\ DOMAIN ports_df.val # {}
        /\ \A w \in DOMAIN ports_df.val : w \in DOMAIN tx_ports

\* ================================================ claims: worker supervision
\* C26: cancelling the future returned by a worker supervisor's start() makes
\* the supervisor terminate the child (SIGTERM, then SIGKILL after the grace
\* interval): after the cancellation the child eventually no longer runs.
C26_CancelStopsWorker ==
    \A i \in 1..MaxServices :
        (services[i].type = "udp_direct_rx" /\ svc_df[i] = "CancelledError")
            ~> (svc_workers[i] = {})

\* --- specification SpecFrame: every operation of the aggregator around tx_sel
\* what the reading thread returns: (idx << 8) + rf_path -> temperature
TempMaps == {<<>>, (0 :> 40), (0 :> 40) @@ (256 :> 45)}

FrameRxLines == CbLines \cup {<< <<"0">>, <<"SESSION">>, <<"1", "1", "8", "12">> >>}

InitFrame ==
    /\ settings \in {s \in SelSettings : s.tx_sel_rssi_delta = 3}
    /\ logger = TRUE
    /\ AggInit
    /\ RxInit
    /\ TxInit
    /\ NoService
    /\ NoTop
    /\ NoCall

NextFrame ==
    \/ \E line \in FrameRxLines : RXLineReceived(line, {}, {})
    \/ TXLineReceived(TxPktLine(TxZeros))
    \/ add_ant_sel_cb(FALSE)
    \/ add_rssi_cb
    \/ connectionMade
    \/ \E s \in Range(CliIds) : connectionLost(s)
    \/ \E t \in TempMaps : got_temp(t)

SpecFrame == InitFrame /\ [][NextFrame]_vars

\* ======================================================== claims: tx_sel
\* C27: tx_sel is 0 when the aggregator is created and is changed only by the
\* antenna selection step of an RX update, i.e. by a PKT record of the RX
\* worker handled with non-empty antenna stats and a registered ant_sel_cb.
\* TX updates, SESSION records, RX updates with empty antenna stats, callback
\* registration, connect / disconnect and temperature publication leave it
\* unchanged.
C27_TxSelFrame ==
    /\ tx_sel = 0
    /\ [][tx_sel' # tx_sel =>
            /\ last_call'.op = "rx_line"
            /\ IsPkt(last_call'.line)
            /\ last_call'.pre.ant # <<>>
            /\ ant_sel_cb_list # <<>>]_vars

\* after a switch to NIC 1, a temperature reading was published
C27_Witness ==
    /\ tx_sel = 1
    /\ last_call.op = "got_temp"
    /\ rf_temperature # <<>>
    /\ rx_session # NoSession
    /\ tx_count_all # <<>>
    /\ connected # {}
\* C28: when a switch happens, the new tx_sel is a candidate NIC whose per-NIC
\* RSSI is the highest among the candidates; among candidates of equal RSSI it
\* is the one with the highest wlan index; a NIC outside the candidate set is
\* never chosen, whatever its RSSI.
C28_BestCandidateChosen ==
    (SelectionRan /\ tx_sel # last_call.pre.tx_sel)
    => /\ tx_sel \in Candidates(PreAgg)
       /\ NicRssi(PreAgg, tx_sel) = BestRssi(PreAgg)
       /\ \A n \in Candidates(PreAgg) :
            NicRssi(PreAgg, n) = BestRssi(PreAgg) => n <= tx_sel

C28_Witness ==
    /\ SelectionRan
    /\ tx_sel # last_call.pre.tx_sel
    /\ \E n \in Candidates(PreAgg) :
         n # tx_sel /\ NicRssi(PreAgg, n) = NicRssi(PreAgg, tx_sel)
    /\ \E n \in Nics(PreAgg) \ Candidates(PreAgg) :
         NicRssi(PreAgg, n) > BestRssi(PreAgg)
\* C29: window closing. Each well-formed PKT record publishes exactly one
\* update, which carries precisely the antenna records received since the
\* previous PKT of that worker, and then empties the per-window antenna map:
\* the update completes, every subscriber gets one record holding the map as it
\* stood before the PKT, and the map is empty afterwards.
C29_WindowClosing ==
    /\ RxPktCall =>
        /\ raised = "none"
        /\ rx_ant = <<>>
        /\ \A s \in Range(ui_sessions) :
            /\ Len(StatsSentTo(s)) = 1
            /\ StatsSentTo(s)[1].rec.rx_ant_stats = last_call.pre.ant
    /\ TxPktCall =>
        /\ raised = "none"
        /\ tx_ant = <<>>
        /\ \A s \in Range(ui_sessions) :
            /\ Len(StatsSentTo(s)) = 1
            /\ StatsSentTo(s)[1].rec.latency = last_call.pre.ant

\* the same on the windows whose update completes
C29_WindowClosingCompleted ==
    /\ (RxPktCall /\ raised = "none") =>
        /\ rx_ant = <<>>
        /\ \A s \in Range(ui_sessions) :
            /\ Len(StatsSentTo(s)) = 1
            /\ StatsSentTo(s)[1].rec.rx_ant_stats = last_call.pre.ant
    /\ TxPktCall =>
        /\ raised = "none"
        /\ tx_ant = <<>>
        /\ \A s \in Range(ui_sessions) :
            /\ Len(StatsSentTo(s)) = 1
            /\ StatsSentTo(s)[1].rec.latency = last_call.pre.ant

\* a PKT after which the antenna map of the window is still there
C29_StaleWindow ==
    RxPktCall /\ raised = "ZeroDivisionError" /\ rx_ant # <<>> /\ rx_ant = last_call.pre.ant

\* ------- specification SpecPeer: services' ant_sel_cb following the selector
\* antenna ids of NIC 0, NIC 1 and of a NIC the services have no TX proxy for
PeerLines ==
    {RxAntLine(F1, "0", AntVal("3", "-60")),
     RxAntLine(F1, "0", AntVal("3", "-55")),
     RxAntLine(F1, "100", AntVal("3", "-60")),
     RxAntLine(F1, "100", AntVal("3", "-55")),
     RxAntLine(F1, "200", AntVal("3", "-55")),
     RxPktLine(ZeroCounters)}

\* p_tx_l[ant_idx] with p_tx_l built from wlans: IndexError exactly when the
\* index is not below len(wlans)
IndexErrorOnly(ev) ==
    \A i \in DOMAIN ev :
        ev[i].ev = "ant_sel_cb" => (ev[i].raised <=> ev[i].idx >= Len(Wlans))

InitPeer ==
    /\ settings \in SelSettings
    /\ logger = FALSE
    /\ AggInit
    /\ RxInit
    /\ TxInit
    /\ NoService
    /\ NoTop
    /\ NoCall

NextPeer ==
    \/ \E line \in PeerLines :
        \E fa \in FailChoices(line, ant_sel_cb_list) :
            RXLineReceived(line, fa, {}) /\ IndexErrorOnly(emitted')
    \/ add_ant_sel_cb(tx_sel >= Len(Wlans))

SpecPeer == InitPeer /\ [][NextPeer]_vars

\* ================================================== claims: peer tracking
\* every antenna id in the current window belongs to a NIC of the services
ReportedInRange == \A k \in DOMAIN rx_ant : NicOf(k[2]) < Len(Wlans)

\* every registered service sends through the TX proxy of the current tx_sel
PeersFollow == \A cb \in DOMAIN peer : peer[cb] = <<tx_sel>>

\* C30: peer tracking. Provided every reported antenna id has a wlan index
\* below the number of NICs, then after its registration and after every RX
\* update the p_in.peer of each service that registered an ant_sel_cb is the
\* TX proxy p_tx_l[tx_sel] of the current tx_sel; in particular a service that
\* registers after earlier switches is bound to the current tx_sel, not to 0.
C30_PeerTracking == []ReportedInRange => []PeersFollow

C30_Witness ==
    /\ last_call.op = "add_ant_sel_cb"
    /\ tx_sel = 1
    /\ peer = << <<1>>, <<1>> >>

\* ================================================ claims: selection guards
\* C31: antenna selection runs only when the update's folded antenna stats are
\* non-empty and at least one ant_sel_cb is registered. An RX update changes
\* tx_sel or calls an ant_sel_cb only in that case; while no ant_sel_cb is
\* registered, tx_sel keeps its value over every RX update and every 'rx'
\* record sent carries that unchanged value as tx_ant.
C31_SelectionGuard ==
    UpdateCalled =>
        /\ (tx_sel # last_call.pre.tx_sel \/ EventsOf("ant_sel_cb") # {}
                \/ EventsOf("set_tx_sel") # {}) =>
              (PreFold.exc = "none" /\ DOMAIN PreAgg # {} /\ ant_sel_cb_list # <<>>)
        /\ ant_sel_cb_list = <<>> =>
              /\ tx_sel = last_call.pre.tx_sel
              /\ \A e \in Sends : e.rec.type = "rx" => e.rec.tx_ant = last_call.pre.tx_sel

\* no callback is registered and the stats would have made the selector switch
C31_Witness ==
    /\ UpdateCalled
    /\ raised = "none"
    /\ ant_sel_cb_list = <<>>
    /\ DOMAIN PreAgg # {}
    /\ SelectDecision(PreAgg, last_call.pre.tx_sel).switch
    /\ tx_sel = last_call.pre.tx_sel
    /\ \E e \in Sends : e.rec.type = "rx" /\ e.rec.tx_ant = tx_sel

\* the RX update of the last step applied once more, to the same antenna stats
\* and counters, in the state the first application left
SecondUpdate ==
    LET d == RxCounters(int_tuple(last_call.line[3]).v) IN
    update_rx_stats(RX_ID, RxStats(d, d), last_call.pre.ant, rx_session, {}, {})

\* C32: selection is idempotent on repeated input. Applying the same RX antenna
\* stats a second time right after an update leaves tx_sel as the first
\* application left it and invokes no ant_sel_cb, for every tx_sel the first
\* application started from and for tx_sel_rssi_delta 0 as well as 3.
C32_SelectionIdempotent ==
    UpdateCalled =>
        /\ SecondUpdate.tx_sel = tx_sel
        /\ \A i \in DOMAIN SecondUpdate.ev :
              SecondUpdate.ev[i].ev \notin {"ant_sel_cb", "set_tx_sel"}

\* the first application switched between two candidates of equal RSSI with
\* tx_sel_rssi_delta = 0
C32_Witness ==
    /\ SelectionRan
    /\ settings.tx_sel_rssi_delta = 0
    /\ tx_sel # last_call.pre.tx_sel
    /\ last_call.pre.tx_sel \in Candidates(PreAgg)
    /\ NicRssi(PreAgg, last_call.pre.tx_sel) = NicRssi(PreAgg, tx_sel)
    /\ EventsOf("ant_sel_cb") # {}

\* C33: hysteresis is bypassed when the current antenna is not a candidate. If
\* selection runs and tx_sel is not in the candidate set (below the packet
\* threshold, or absent from the update's stats), tx_sel switches to the best
\* candidate and the callbacks are told, however small or negative the RSSI
\* difference to the previous antenna.
C33_NonCandidateSwitches ==
    (SelectionRan /\ last_call.pre.tx_sel \notin Candidates(PreAgg)) =>
        /\ tx_sel # last_call.pre.tx_sel
        /\ tx_sel \in Candidates(PreAgg)
        /\ NicRssi(PreAgg, tx_sel) = BestRssi(PreAgg)
        /\ \A cb \in Range(ant_sel_cb_list) :
              \E i \in EventsOf("ant_sel_cb") : emitted[i].cb = cb /\ emitted[i].idx = tx_sel

\* the previous antenna is below the packet threshold and louder than the
\* best candidate, with tx_sel_rssi_delta = 3
C33_Witness ==
    /\ SelectionRan
    /\ settings.tx_sel_rssi_delta = 3
    /\ last_call.pre.tx_sel \in Nics(PreAgg) \ Candidates(PreAgg)
    /\ NicRssi(PreAgg, last_call.pre.tx_sel) > BestRssi(PreAgg)
    /\ tx_sel # last_call.pre.tx_sel

====
